---------------------------- MODULE Spec2Model ----------------------------
(***************************************************************************)
(* EPUB merge/split engine (backend-py/plugins/epub_tool/utils):           *)
(* merge_epub.py and split_epub.py as state machines, with the path and    *)
(* percent-encoding helpers of posixpath / urllib.parse they rely on.      *)
(*                                                                         *)
(* Text (paths, hrefs, ids, file names) is a sequence of one-character     *)
(* strings, so that prefixing, joining, normalising and quoting are        *)
(* computed character by character, the way the Python code does.          *)
(***************************************************************************)
EXTENDS Integers, Sequences, FiniteSets, TLC

VARIABLES
    op,         \* which entry point this run exercises
    pc,         \* position of the run inside that entry point
    arg,        \* arguments of a pure helper under check
    ret,        \* its result
    rc,         \* return code of run(): -1 while running, 0 ok, 1 failure
    input_paths,        \* the EPUB files named on the command line
    idx,                \* loop position: input being parsed / volume or segment being built
    opened,             \* positions of input_paths whose ZipFile is open
    outputs,            \* files created in the output directory, in creation order
    err,                \* why the run failed ("" while it has not)
    epub_data,          \* merge: parsed data of the inputs read so far
    rename_maps,        \* merge: one rename map per input
    output_version,     \* merge: version of the merged OPF
    used_ids,           \* merge: manifest ids taken so far
    all_manifest_items, \* merge: manifest of the merged OPF
    all_spine_items,    \* merge: spine of the merged OPF
    all_toc_for_nav,    \* merge: (epub_title, entries) per input
    all_content_files,  \* merge: (bookpath, data) list handed to the writer
    split_points,       \* split: requested indices into the targets
    split_ctx,          \* split: what _do_split computed before its segment loop
    assigned_docs,      \* split: bookpaths already given to a segment
    log_txt,            \* the characters of log.txt
    loggers,            \* the logwriter instances: state and file position
    stderr              \* the lines printed to sys.stderr by logwriter.write

helperVars == <<arg, ret>>
runVars    == <<input_paths, idx, opened, outputs, err>>
mergeVars  == <<epub_data, rename_maps, output_version, used_ids, all_manifest_items,
                all_spine_items, all_toc_for_nav, all_content_files>>
splitVars  == <<split_points, split_ctx, assigned_docs>>

logVars    == <<log_txt, loggers, stderr>>

vars == <<op, pc, rc, helperVars, runVars, mergeVars, splitVars, logVars>>

---------------------------------------------------------------------------
(* Sequences of characters.                                                *)

Empty == <<>>

Range(s) == {s[i] : i \in 1..Len(s)}

RECURSIVE Flatten(_)
Flatten(ss) == IF ss = <<>> THEN <<>> ELSE Head(ss) \o Flatten(Tail(ss))

startswith(s, pre) ==
    Len(s) >= Len(pre) /\ SubSeq(s, 1, Len(pre)) = pre

endswith(s, suf) ==
    Len(s) >= Len(suf) /\ SubSeq(s, Len(s) - Len(suf) + 1, Len(s)) = suf

\* str.find(ch): 1-based position of the first ch, 0 when absent
find(s, ch) ==
    IF ch \in Range(s)
    THEN CHOOSE i \in 1..Len(s) : s[i] = ch /\ \A j \in 1..(i - 1) : s[j] # ch
    ELSE 0

\* str.rfind(ch): 1-based position of the last ch, 0 when absent
rfind(s, ch) ==
    IF ch \in Range(s)
    THEN CHOOSE i \in 1..Len(s) : s[i] = ch /\ \A j \in (i + 1)..Len(s) : s[j] # ch
    ELSE 0

\* str.split(ch): the pieces between occurrences of ch (always at least one)
RECURSIVE split(_, _)
split(s, ch) ==
    LET i == find(s, ch)
    IN  IF i = 0 THEN <<s>>
        ELSE <<SubSeq(s, 1, i - 1)>> \o split(SubSeq(s, i + 1, Len(s)), ch)

\* ch.join(parts)
RECURSIVE joinwith(_, _)
joinwith(parts, ch) ==
    IF parts = <<>> THEN <<>>
    ELSE IF Len(parts) = 1 THEN parts[1]
    ELSE parts[1] \o <<ch>> \o joinwith(Tail(parts), ch)

\* str.rstrip(ch)
RECURSIVE rstrip(_, _)
rstrip(s, ch) ==
    IF s # <<>> /\ s[Len(s)] = ch THEN rstrip(SubSeq(s, 1, Len(s) - 1), ch) ELSE s

\* decimal digits of a natural number, as str(n) / f"{n}" prints it
DigitChar(d) == <<"0", "1", "2", "3", "4", "5", "6", "7", "8", "9">>[d + 1]

RECURSIVE IntToStr(_)
IntToStr(n) ==
    IF n < 10 THEN <<DigitChar(n)>>
    ELSE IntToStr(n \div 10) \o <<DigitChar(n % 10)>>

\* the printable ASCII characters, from code 32 (blank) to code 126; "grave"
\* stands for the backquote (code 96), which a TLA+ string cannot hold
Ascii ==
    <<
    " ", "!", "\"", "#", "$", "%", "&", "'", "(", ")", "*", "+", ",", "-", ".", "/",
    "0", "1", "2", "3", "4", "5", "6", "7", "8", "9", ":", ";", "<", "=", ">", "?",
    "@", "A", "B", "C", "D", "E", "F", "G", "H", "I", "J", "K", "L", "M", "N", "O",
    "P", "Q", "R", "S", "T", "U", "V", "W", "X", "Y", "Z", "[", "\\", "]", "^", "_",
    "grave", "a", "b", "c", "d", "e", "f", "g", "h", "i", "j", "k", "l", "m", "n", "o",
    "p", "q", "r", "s", "t", "u", "v", "w", "x", "y", "z", "{", "|", "}", "~"
    >>

\* ord(ch) of a printable ASCII character
ord(ch) == 31 + CHOOSE k \in 1..Len(Ascii) : Ascii[k] = ch

\* chr(n) for a printable code; "?" stands for every other character
chr(n) == IF n \in 32..126 THEN Ascii[n - 31] ELSE "?"

\* str.lower() of one character
LowerChar(ch) == IF ord(ch) \in ord("A")..ord("Z") THEN chr(ord(ch) + 32) ELSE ch

lower(s) == [i \in 1..Len(s) |-> LowerChar(s[i])]

\* sub in s
contains(s, sub) ==
    \E i \in 1..(Len(s) - Len(sub) + 1) : SubSeq(s, i, i + Len(sub) - 1) = sub

\* s.replace(old, ""), old not empty
RECURSIVE remove_all(_, _)
remove_all(s, old) ==
    IF s = <<>> THEN <<>>
    ELSE IF startswith(s, old) THEN remove_all(SubSeq(s, Len(old) + 1, Len(s)), old)
    ELSE <<Head(s)>> \o remove_all(Tail(s), old)

\* str.strip() of blanks
RECURSIVE strip(_)
strip(s) ==
    IF s # <<>> /\ s[1] = " " THEN strip(Tail(s))
    ELSE IF s # <<>> /\ s[Len(s)] = " " THEN strip(SubSeq(s, 1, Len(s) - 1))
    ELSE s

---------------------------------------------------------------------------
(* posixpath                                                               *)

\* posixpath.dirname
dirname(p) ==
    LET i    == rfind(p, "/")
        head == SubSeq(p, 1, i)
    IN  IF head # <<>> /\ Range(head) # {"/"} THEN rstrip(head, "/") ELSE head

\* posixpath.basename
basename(p) == SubSeq(p, rfind(p, "/") + 1, Len(p))

\* posixpath.join(a, b)
join(a, b) ==
    IF startswith(b, <<"/">>) THEN b
    ELSE IF a = <<>> \/ endswith(a, <<"/">>) THEN a \o b
    ELSE a \o <<"/">> \o b

\* the component loop of posixpath.normpath
RECURSIVE NormComps(_, _, _)
NormComps(comps, new_comps, initial_slashes) ==
    IF comps = <<>> THEN new_comps
    ELSE
        LET comp == Head(comps)
            rest == Tail(comps)
        IN  IF comp = <<>> \/ comp = <<".">> THEN
                NormComps(rest, new_comps, initial_slashes)
            ELSE IF \/ comp # <<".", ".">>
                    \/ (initial_slashes = 0 /\ new_comps = <<>>)
                    \/ (new_comps # <<>> /\ new_comps[Len(new_comps)] = <<".", ".">>)
            THEN NormComps(rest, Append(new_comps, comp), initial_slashes)
            ELSE IF new_comps # <<>> THEN
                NormComps(rest, SubSeq(new_comps, 1, Len(new_comps) - 1), initial_slashes)
            ELSE NormComps(rest, new_comps, initial_slashes)

\* posixpath.normpath
normpath(path) ==
    IF path = <<>> THEN <<".">>
    ELSE
        LET initial_slashes ==
                IF ~startswith(path, <<"/">>) THEN 0
                ELSE IF startswith(path, <<"/", "/">>) /\ ~startswith(path, <<"/", "/", "/">>)
                THEN 2 ELSE 1
            comps  == NormComps(split(path, "/"), <<>>, initial_slashes)
            joined == joinwith(comps, "/")
            out    == [i \in 1..initial_slashes |-> "/"] \o joined
        IN  IF out = <<>> THEN <<".">> ELSE out

\* os.getcwd() of the process running the tool
Cwd == <<"/", "w">>

\* posixpath.abspath
abspath(p) == IF startswith(p, <<"/">>) THEN normpath(p) ELSE normpath(join(Cwd, p))

NonEmptyParts(p) == SelectSeq(split(p, "/"), LAMBDA x : x # <<>>)

\* length of the common prefix of two component lists
RECURSIVE CommonLen(_, _)
CommonLen(a, b) ==
    IF a = <<>> \/ b = <<>> \/ Head(a) # Head(b) THEN 0
    ELSE 1 + CommonLen(Tail(a), Tail(b))

\* posixpath.relpath(path, start)
relpath(path, start) ==
    LET start_list == NonEmptyParts(abspath(start))
        path_list  == NonEmptyParts(abspath(path))
        i          == CommonLen(start_list, path_list)
        rel_list   == [k \in 1..(Len(start_list) - i) |-> <<".", ".">>]
                        \o SubSeq(path_list, i + 1, Len(path_list))
    IN  IF rel_list = <<>> THEN <<".">> ELSE joinwith(rel_list, "/")

---------------------------------------------------------------------------
(* merge_epub._detect_conflicts                                            *)

\* first loop: a path is conflicting when an earlier iteration already saw it
RECURSIVE ConflictScan(_, _, _, _)
ConflictScan(all_book_files, i, seen, conflict_paths) ==
    IF i > Len(all_book_files) THEN conflict_paths
    ELSE ConflictScan(all_book_files, i + 1,
                      seen \cup all_book_files[i],
                      conflict_paths \cup (all_book_files[i] \cap seen))

\* f"vol{vol_idx + 1}_{name}"; vol is the 1-based position vol_idx + 1
VolPrefixed(vol, name) == <<"v", "o", "l">> \o IntToStr(vol) \o <<"_">> \o name

\* the renamed path of one conflicting bookpath of volume vol
RenamedPath(vol, fp) ==
    LET dn       == dirname(fp)
        new_name == VolPrefixed(vol, basename(fp))
    IN  IF dn # <<>> THEN join(dn, new_name) ELSE new_name

\* a variant that renames a path only when an EARLIER volume holds it
detect_conflicts_earlier_only(all_book_files) ==
    [vol \in 1..Len(all_book_files) |->
        LET earlier == UNION {all_book_files[j] : j \in 1..(vol - 1)}
        IN  [fp \in (all_book_files[vol] \cap earlier) |-> RenamedPath(vol, fp)]]

detect_conflicts(all_book_files) ==
    LET conflict_paths == ConflictScan(all_book_files, 1, {}, {})
    IN  [vol \in 1..Len(all_book_files) |->
            IF vol = 1 THEN [fp \in {} |-> fp]
            ELSE [fp \in (all_book_files[vol] \cap conflict_paths) |-> RenamedPath(vol, fp)]]

---------------------------------------------------------------------------
(* urllib.parse.quote / unquote                                            *)

HexDigits == {"0", "1", "2", "3", "4", "5", "6", "7", "8", "9",
              "A", "B", "C", "D", "E", "F", "a", "b", "c", "d", "e", "f"}

\* the characters quote() never escapes: letters, digits and "_.-~"
AlwaysSafe ==
    {ch \in Range(Ascii) : \/ ord(ch) \in ord("a")..ord("z")
                           \/ ord(ch) \in ord("A")..ord("Z")
                           \/ ord(ch) \in ord("0")..ord("9")}
        \cup {"_", ".", "-", "~"}

HexUpper == <<"0", "1", "2", "3", "4", "5", "6", "7", "8", "9", "A", "B", "C", "D", "E", "F">>

\* the value of a hexadecimal digit, either case
HexValue(h) ==
    CHOOSE v \in 0..15 : HexUpper[v + 1] = h \/ LowerChar(HexUpper[v + 1]) = h

\* "%{:02X}" of a character, without the percent sign
PercentCode(ch) == <<HexUpper[(ord(ch) \div 16) + 1], HexUpper[(ord(ch) % 16) + 1]>>

\* the character of a two-digit code
PercentChar(h1, h2) == chr(16 * HexValue(h1) + HexValue(h2))

RECURSIVE unquote(_)
unquote(s) ==
    IF s = <<>> THEN <<>>
    ELSE IF s[1] = "%" /\ Len(s) >= 3 /\ s[2] \in HexDigits /\ s[3] \in HexDigits
    THEN <<PercentChar(s[2], s[3])>> \o unquote(SubSeq(s, 4, Len(s)))
    ELSE <<s[1]>> \o unquote(Tail(s))

\* urllib.parse.quote(s, safe=safe)
RECURSIVE quote(_, _)
quote(s, safe) ==
    IF s = <<>> THEN <<>>
    ELSE (IF s[1] \in AlwaysSafe \cup safe THEN <<s[1]>>
          ELSE <<"%">> \o PercentCode(s[1])) \o quote(Tail(s), safe)

---------------------------------------------------------------------------
(* merge_epub._update_references_in_content / _update_references_in_css    *)
(*                                                                         *)
(* A document is the sequence of the attribute occurrences the pattern     *)
(* (href|src)\s*=\s*(["'])(.*?)\2 matches in it: [name, q, value], where   *)
(* value holds no q. The text around the matches is copied unchanged.      *)

\* safe_chars = "/:@!$&'()*+,;="
safe_chars == {"/", ":", "@", "!", "$", "&", "'", "(", ")", "*", "+", ",", ";", "="}

\* the text of one attribute occurrence: name="value"
AttrText(name, q, value) == name \o <<"=">> \o <<q>> \o value \o <<q>>

\* value.split("#", 1): <<value, frag>>, frag with its leading "#"
SplitFragment(value) ==
    LET i == find(value, "#")
    IN  IF i = 0 THEN <<value, <<>>>>
        ELSE <<SubSeq(value, 1, i - 1), SubSeq(value, i, Len(value))>>

\* _replace_attr: the replacement text of one match
replace_attr(m, rename_map, content_dir) ==
    LET vf       == SplitFragment(m.value)
        value    == vf[1]
        frag     == vf[2]
        resolved == normpath(join(content_dir, unquote(value)))
    IN  IF value = <<>> THEN AttrText(m.name, m.q, m.value)
        ELSE IF resolved \in DOMAIN rename_map THEN
            LET new_rel    == relpath(rename_map[resolved], content_dir)
                quoted_rel == quote(new_rel, safe_chars)
            IN  AttrText(m.name, m.q, quoted_rel \o frag)
        ELSE AttrText(m.name, m.q, m.value)

\* _update_references_in_content: the rewritten text of every match, in order
update_references_in_content(doc, rename_map, content_bookpath) ==
    IF DOMAIN rename_map = {} THEN
        [i \in 1..Len(doc) |-> AttrText(doc[i].name, doc[i].q, doc[i].value)]
    ELSE
        LET content_dir == dirname(content_bookpath)
        IN  [i \in 1..Len(doc) |-> replace_attr(doc[i], rename_map, content_dir)]

\* the text of one url() occurrence: url("value")
UrlText(q, value) == <<"u", "r", "l", "(">> \o q \o value \o q \o <<")">>

\* _replace_url: the replacement text of one match of url\((["']?)([^)]*?)\1\)
replace_url(m, rename_map, css_dir) ==
    LET resolved == normpath(join(css_dir, unquote(m.value)))
    IN  IF m.value = <<>> \/ startswith(m.value, <<"d", "a", "t", "a", ":">>) THEN UrlText(m.q, m.value)
        ELSE IF resolved \in DOMAIN rename_map THEN
            UrlText(m.q, relpath(rename_map[resolved], css_dir))
        ELSE UrlText(m.q, m.value)

\* _update_references_in_css: the rewritten text of every url() match, in order
update_references_in_css(css, rename_map, css_bookpath) ==
    IF DOMAIN rename_map = {} THEN [i \in 1..Len(css) |-> UrlText(css[i].q, css[i].value)]
    ELSE [i \in 1..Len(css) |-> replace_url(css[i], rename_map, dirname(css_bookpath))]

\* what the pattern (href|src)\s*=\s*(["'])(.*?)\2 reads back from a piece of
\* text that starts with an attribute: the shortest value up to the quote
ScanAttrValue(text) ==
    LET eq   == find(text, "=")
        q    == text[eq + 1]
        rest == SubSeq(text, eq + 2, Len(text))
        j    == find(rest, q)
    IN  SubSeq(rest, 1, j - 1)

\* the bookpath a reference value of a document in doc_dir points at:
\* fragment stripped, percent-decoded, joined with the directory, normalised
ResolveRef(value, doc_dir) ==
    normpath(join(doc_dir, unquote(SplitFragment(value)[1])))

---------------------------------------------------------------------------
(* Inputs of the helper checks.                                            *)

MaxSources == 3

P_a   == <<"a">>
P_d_a == <<"d", "/", "a">>
P_d_b == <<"d", "/", "b">>

ConflictPathPool == {P_a, P_d_a, P_d_b}

BookFileLists ==
    UNION {[1..n -> SUBSET ConflictPathPool] : n \in 2..MaxSources}

\* the modules that hold a logwriter instance, in import order
LogWriters == <<"merge_epub", "split_epub">>

\* no logwriter has been constructed
NoLog ==
    /\ log_txt = <<>>
    /\ loggers = [w \in Range(LogWriters) |-> [state |-> "none", pos |-> 0]]
    /\ stderr = <<>>

\* the run state of a check that exercises one helper only
NoRun ==
    /\ input_paths = <<>> /\ idx = 0 /\ opened = {} /\ outputs = <<>> /\ err = ""
    /\ epub_data = <<>> /\ rename_maps = <<>> /\ output_version = <<>>
    /\ used_ids = {} /\ all_manifest_items = <<>> /\ all_spine_items = <<>>
    /\ all_toc_for_nav = <<>> /\ all_content_files = <<>>
    /\ split_points = <<>> /\ split_ctx = <<>> /\ assigned_docs = {}
    /\ NoLog

InitConflicts ==
    /\ op = "detect_conflicts"
    /\ pc = "call"
    /\ arg \in BookFileLists
    /\ ret = <<>>
    /\ rc = -1
    /\ NoRun

CallDetectConflicts ==
    /\ op = "detect_conflicts"
    /\ pc = "call"
    /\ ret' = detect_conflicts(arg)
    /\ pc' = "done"
    /\ UNCHANGED <<op, logVars, arg, rc, runVars, mergeVars, splitVars>>

NextConflicts == CallDetectConflicts

SpecConflicts == InitConflicts /\ [][NextConflicts]_vars

\* C1: _detect_conflicts returns one map per source; map[0] is empty; for every
\* later source i the keys of its map are exactly its bookpaths that occur in
\* some other source's set (earlier or later), and each key p maps to the path
\* with p's directory and the basename "vol{i+1}_" + basename(p).
C1_ConflictMaps ==
    (op = "detect_conflicts" /\ pc = "done") =>
        /\ Len(ret) = Len(arg)
        /\ DOMAIN ret[1] = {}
        /\ \A i \in 2..Len(arg) :
            /\ DOMAIN ret[i] =
                  {p \in arg[i] : \E j \in 1..Len(arg) : j # i /\ p \in arg[j]}
            /\ \A p \in DOMAIN ret[i] :
                /\ dirname(ret[i][p]) = dirname(p)
                /\ basename(ret[i][p]) =
                      <<"v", "o", "l">> \o IntToStr(i) \o <<"_">> \o basename(p)

\* C1 witness: three sources, a path of the second one conflicts only with the
\* third, and a path inside a directory has been renamed.
C1_Witness ==
    /\ op = "detect_conflicts" /\ pc = "done"
    /\ Len(arg) = 3
    /\ P_d_a \in arg[2] /\ P_d_a \in arg[3] /\ P_d_a \notin arg[1]
    /\ P_d_a \in DOMAIN ret[2]
    /\ ret[2][P_d_a] = <<"d", "/", "v", "o", "l", "2", "_", "a">>
    /\ ret[3][P_d_a] = <<"d", "/", "v", "o", "l", "3", "_", "a">>

---------------------------------------------------------------------------
(* Inputs of the reference-rewriter checks.                                *)

P_c     == <<"c">>
P_d_c   == <<"d", "/", "c">>
P_d_e_c == <<"d", "/", "e", "/", "c">>
P_d_ap  == <<"d", "/", "a", "'">>
P_d_sp  == <<"d", "/", "a", " ", "b">>

\* bookpaths of the documents being rewritten
DocPaths == {P_c, P_d_c, P_d_e_c}

\* bookpaths a rename map may hold
RewriteKeyPool == {P_a, P_d_a, P_d_ap, P_d_sp}

\* the rename maps _detect_conflicts builds for a later volume
RenameMaps ==
    {[fp \in K |-> RenamedPath(vol, fp)] : K \in SUBSET RewriteKeyPool, vol \in 2..MaxSources}

A_href == <<"h", "r", "e", "f">>
A_src  == <<"s", "r", "c">>

\* reference values as they stand in a document
RefValues ==
    { <<>>,
      <<"a">>,
      <<"a", "#", "f">>,
      <<"#", "f">>,
      <<".", "/", "a">>,
      <<".", ".", "/", "a">>,
      <<".", ".", "/", "a", "#", "f">>,
      <<"d", "/", "a">>,
      <<"b">>,
      <<"a", "'">>,
      <<"a", "%", "2", "7">>,
      <<"a", "%", "2", "7", "#", "f">>,
      <<"a", " ", "b">>,
      <<"a", "%", "2", "0", "b">>,
      <<"%", "6", "1">>,
      <<".", ".", "/", "d", "/", "a", "\"">> }

\* the matches of the pattern: the value never holds the quote that closes it
Matches ==
    {m \in [name : {A_href, A_src}, q : {"\"", "'"}, value : RefValues] :
        m.q \notin Range(m.value)}

InitRewrite ==
    /\ op = "update_references_in_content"
    /\ pc = "call"
    /\ arg \in [doc : {<<m>> : m \in Matches},
                 rename_map : RenameMaps,
                 content_bookpath : DocPaths]
    /\ ret = <<>>
    /\ rc = -1
    /\ NoRun

CallUpdateContent ==
    /\ op = "update_references_in_content"
    /\ pc = "call"
    /\ ret' = update_references_in_content(arg.doc, arg.rename_map, arg.content_bookpath)
    /\ pc' = "done"
    /\ UNCHANGED <<op, logVars, arg, rc, runVars, mergeVars, splitVars>>

NextRewrite == CallUpdateContent

SpecRewrite == InitRewrite /\ [][NextRewrite]_vars

\* C2: for every href/src value of a content document that resolves (relative
\* to the document's directory, percent-decoded, fragment stripped) to a key of
\* the rename map, the value read back from the rewritten document resolves the
\* same way to exactly the renamed bookpath.
C2_RewriteRoundTrip ==
    (op = "update_references_in_content" /\ pc = "done") =>
        \A i \in 1..Len(arg.doc) :
            LET doc_dir  == dirname(arg.content_bookpath)
                resolved == ResolveRef(arg.doc[i].value, doc_dir)
            IN  resolved \in DOMAIN arg.rename_map =>
                    ResolveRef(ScanAttrValue(ret[i]), doc_dir) = arg.rename_map[resolved]

---------------------------------------------------------------------------
(* An EPUB file on disk, as the readers see it.                            *)
(*   exists, is_zip : os.path.exists / zipfile.is_zipfile                  *)
(*   stem           : file name without directory and extension            *)
(*   container      : full-path of META-INF/container.xml (<<>>: no match) *)
(*   namelist       : member names, in archive order                       *)
(*   corrupt        : members whose read raises BadZipFile (bad CRC)       *)
(*   opf            : the package document: well-formed or not, version    *)
(*                    attribute (<<>>: absent), item and itemref elements  *)
(*   toc_docs       : nav / NCX documents by bookpath: well-formed or not, *)
(*                    and their entries in document order with depth       *)
(*   docs, css      : attribute / url() matches of the text members        *)

MT_XHTML == "application/xhtml+xml"
MT_CSS   == "text/css"
MT_NCX   == "application/x-dtbncx+xml"
MT_PNG   == "image/png"

Members(book) == Range(book.namelist)

\* _find_opf_path: <<>> stands for None
find_opf_path(book) ==
    IF book.container # <<>> /\ endswith(lower(book.container), <<".", "o", "p", "f">>)
    THEN book.container
    ELSE
        LET hits == SelectSeq(book.namelist, LAMBDA n : endswith(lower(n), <<".", "o", "p", "f">>))
        IN  IF hits # <<>> THEN hits[1] ELSE <<>>

\* manifest[item_id] = (...) over the item elements: a dict keeps the position of
\* the first insertion of a key and the value of the last one
RECURSIVE ManifestDict(_, _)
ManifestDict(items, acc) ==
    IF items = <<>> THEN acc
    ELSE
        LET it   == Head(items)
            item == [it EXCEPT !.href = unquote(it.href)]
        IN  IF it.id = <<>> \/ item.href = <<>> THEN ManifestDict(Tail(items), acc)
            ELSE IF \E k \in 1..Len(acc) : acc[k].id = it.id THEN
                ManifestDict(Tail(items),
                             [k \in 1..Len(acc) |-> IF acc[k].id = it.id THEN item ELSE acc[k]])
            ELSE ManifestDict(Tail(items), Append(acc, item))

\* _parse_opf; ok = FALSE stands for the exception it raises (KeyError,
\* BadZipFile, ParseError)
parse_opf(book, opf_path) ==
    IF opf_path \notin Members(book) \/ opf_path \in book.corrupt \/ ~book.opf.ok THEN
        [ok |-> FALSE]
    ELSE
        [ok       |-> TRUE,
         version  |-> IF book.opf.version = <<>> THEN <<"3", ".", "0">> ELSE book.opf.version,
         manifest |-> ManifestDict(book.opf.items, <<>>),
         spine    |-> SelectSeq(book.opf.itemrefs, LAMBDA r : r.idref # <<>>),
         opf_dir  |-> dirname(opf_path),
         toc_id   |-> book.opf.toc]

\* posixpath.normpath(posixpath.join(opf_dir, href)) if opf_dir else href
BookPath(opf_dir, href) ==
    IF opf_dir # <<>> THEN normpath(join(opf_dir, href)) ELSE href

InManifest(manifest, id) == \E k \in 1..Len(manifest) : manifest[k].id = id

ManifestGet(manifest, id) ==
    manifest[CHOOSE k \in 1..Len(manifest) : manifest[k].id = id]

\* epub_zip.read(path).decode() followed by ElementTree.fromstring:
\* "missing" (KeyError, caught), "raise" (BadZipFile, ParseError), "ok"
ReadXml(book, path) ==
    IF path \notin Members(book) THEN "missing"
    ELSE IF path \in book.corrupt THEN "raise"
    ELSE IF path \in DOMAIN book.toc_docs /\ ~book.toc_docs[path].ok THEN "raise"
    ELSE "ok"

\* the entries of the document at path when it is of the given kind
TocDocEntries(book, path, kind) ==
    IF path \in DOMAIN book.toc_docs /\ book.toc_docs[path].kind = kind
    THEN book.toc_docs[path].entries ELSE <<>>

\* merge_epub._parse_toc_nav: (title, href) per <a> and <span>, in document order
parse_toc_nav(book, nav_path) ==
    LET nav_dir == dirname(nav_path)
        es      == TocDocEntries(book, nav_path, "nav")
    IN  IF ReadXml(book, nav_path) # "ok" THEN <<>>
        ELSE [k \in 1..Len(es) |->
                [title |-> es[k].title,
                 href  |-> IF es[k].tag = "a" /\ es[k].href # <<>>
                           THEN normpath(join(nav_dir, es[k].href)) ELSE <<>>]]

\* merge_epub._parse_toc_ncx: (title, href) per navPoint that has one of them
parse_toc_ncx(book, ncx_path) ==
    LET ncx_dir == dirname(ncx_path)
        es      == TocDocEntries(book, ncx_path, "ncx")
        all     == [k \in 1..Len(es) |->
                     [title |-> es[k].title,
                      href  |-> IF es[k].href # <<>>
                                THEN normpath(join(ncx_dir, es[k].href)) ELSE <<>>]]
    IN  IF ReadXml(book, ncx_path) # "ok" THEN <<>>
        ELSE SelectSeq(all, LAMBDA e : e.title # "" \/ e.href # <<>>)

---------------------------------------------------------------------------
(* merge_epub._do_merge, phase 1: one iteration of the parse loop.         *)

\* the first manifest item whose properties contain "nav" (0: none)
FirstNavItem(manifest) ==
    IF \E k \in 1..Len(manifest) : contains(manifest[k].props, <<"n", "a", "v">>)
    THEN CHOOSE k \in 1..Len(manifest) :
            /\ contains(manifest[k].props, <<"n", "a", "v">>)
            /\ \A j \in 1..(k - 1) : ~contains(manifest[j].props, <<"n", "a", "v">>)
    ELSE 0

\* status "no_opf": the early return 1; "raise": an exception leaves _do_merge
merge_parse_one(book) ==
    LET opf_path == find_opf_path(book)
        po       == parse_opf(book, opf_path)
    IN  IF opf_path = <<>> THEN [status |-> "no_opf"]
        ELSE IF ~po.ok THEN [status |-> "raise"]
        ELSE
            LET manifest  == po.manifest
                opf_dir   == po.opf_dir
                navk      == FirstNavItem(manifest)
                nav_path  == IF navk = 0 THEN <<>> ELSE BookPath(opf_dir, manifest[navk].href)
                nav_toc   == IF navk = 0 THEN <<>> ELSE parse_toc_nav(book, nav_path)
                try_ncx   == nav_toc = <<>> /\ po.toc_id # <<>> /\ InManifest(manifest, po.toc_id)
                ncx_path  == IF try_ncx
                             THEN BookPath(opf_dir, ManifestGet(manifest, po.toc_id).href)
                             ELSE <<>>
            IN  IF navk # 0 /\ ReadXml(book, nav_path) = "raise" THEN [status |-> "raise"]
                ELSE IF try_ncx /\ ReadXml(book, ncx_path) = "raise" THEN [status |-> "raise"]
                ELSE
                    [status      |-> "ok",
                     stem        |-> book.stem,
                     opf_path    |-> opf_path,
                     opf_dir     |-> opf_dir,
                     version     |-> po.version,
                     manifest    |-> manifest,
                     spine       |-> po.spine,
                     toc_id      |-> po.toc_id,
                     toc_entries |-> IF try_ncx THEN parse_toc_ncx(book, ncx_path) ELSE nav_toc,
                     book_files  |-> {BookPath(opf_dir, manifest[k].href) : k \in 1..Len(manifest)}]

---------------------------------------------------------------------------
(* merge_epub._do_merge, phase 3: one iteration of the volume loop.        *)

merged_opf_dir      == <<"O", "E", "B", "P", "S">>
merged_opf_path     == <<"O", "E", "B", "P", "S", "/", "c", "o", "n", "t", "e", "n", "t", ".", "o", "p", "f">>
merged_nav_bookpath == <<"O", "E", "B", "P", "S", "/", "n", "a", "v", ".", "x", "h", "t", "m", "l">>

\* a variant that always writes an EPUB3 package
merge_output_version_always3(versions) == <<"3", ".", "0">>

\* output_version of the versions list
merge_output_version(versions) ==
    IF \E k \in 1..Len(versions) : versions[k] # versions[1] THEN <<"3", ".", "0">> ELSE versions[1]

\* "Ensure unique ID"; ok = FALSE: the while loop never ends, its only
\* candidate vol{N}_{id}_{len(used_ids)} being taken
unique_id(item_id, vol, used) ==
    LET first == IF item_id \in used THEN VolPrefixed(vol, item_id) ELSE item_id
        again == VolPrefixed(vol, item_id) \o <<"_">> \o IntToStr(Cardinality(used))
    IN  IF first \notin used THEN [ok |-> TRUE, id |-> first]
        ELSE IF again \notin used THEN [ok |-> TRUE, id |-> again]
        ELSE [ok |-> FALSE, id |-> again]

IsContentDoc(media_type, bookpath) ==
    \/ media_type = MT_XHTML
    \/ endswith(lower(bookpath), <<".", "x", "h", "t", "m", "l">>)
    \/ endswith(lower(bookpath), <<".", "h", "t", "m", "l">>)

IsStylesheet(media_type, bookpath) ==
    media_type = MT_CSS \/ endswith(lower(bookpath), <<".", "c", "s", "s">>)

\* props.replace("nav", "").strip() if props else ""
StripNavProp(props) == strip(remove_all(props, <<"n", "a", "v">>))

\* the bytes of a member after reference rewriting: where they come from and
\* the text of the rewritten matches
merge_file_data(book, vol, item, bookpath, rename_map) ==
    [vol  |-> vol,
     path |-> bookpath,
     text |-> IF IsContentDoc(item.media_type, bookpath) THEN
                  update_references_in_content(
                      IF bookpath \in DOMAIN book.docs THEN book.docs[bookpath] ELSE <<>>,
                      rename_map, bookpath)
              ELSE IF IsStylesheet(item.media_type, bookpath) THEN
                  update_references_in_css(
                      IF bookpath \in DOMAIN book.css THEN book.css[bookpath] ELSE <<>>,
                      rename_map, bookpath)
              ELSE <<>>]

\* dict.get(key, key) on a rename map
RenameGet(rename_map, bookpath) ==
    IF bookpath \in DOMAIN rename_map THEN rename_map[bookpath] ELSE bookpath

\* "Process manifest items": the loop over one volume's manifest.
\* acc.status: "ok", "raise" (zf.read raised BadZipFile), "hang" (unique id loop)
RECURSIVE merge_manifest_loop(_, _, _, _, _)
merge_manifest_loop(book, data, vol, rename_map, st) ==
    IF st.k > Len(data.manifest) \/ st.status # "ok" THEN st
    ELSE
        LET item     == data.manifest[st.k]
            bookpath == BookPath(data.opf_dir, item.href)
            next     == [st EXCEPT !.k = st.k + 1]
        IN  IF item.media_type = MT_NCX \/ contains(item.props, <<"n", "a", "v">>) THEN
                merge_manifest_loop(book, data, vol, rename_map, next)
            ELSE
                LET final_bookpath == RenameGet(rename_map, bookpath)
                    merged_href    == relpath(final_bookpath, merged_opf_dir)
                    uid            == unique_id(item.id, vol, st.used_ids)
                    new_item       == [id |-> uid.id, href |-> merged_href,
                                       media_type |-> item.media_type,
                                       props |-> StripNavProp(item.props)]
                    added          == [next EXCEPT
                                         !.used_ids = @ \cup {uid.id},
                                         !.id_remap = (item.id :> uid.id) @@ @,
                                         !.manifest_items = Append(@, new_item)]
                IN  IF ~uid.ok THEN [st EXCEPT !.status = "hang"]
                    ELSE IF bookpath \notin Members(book) THEN
                        merge_manifest_loop(book, data, vol, rename_map, added)
                    ELSE IF bookpath \in book.corrupt THEN [added EXCEPT !.status = "raise"]
                    ELSE merge_manifest_loop(book, data, vol, rename_map,
                            [added EXCEPT !.content_files =
                                Append(@, [bookpath |-> final_bookpath,
                                           data |-> merge_file_data(book, vol, item,
                                                                    bookpath, rename_map)])])

\* "Process spine items": idrefs through id_remap, kept when the id is in use
merge_spine_items(spine, id_remap, used) ==
    LET mapped == [k \in 1..Len(spine) |->
                     [spine[k] EXCEPT !.idref =
                        IF spine[k].idref \in DOMAIN id_remap
                        THEN id_remap[spine[k].idref] ELSE spine[k].idref]]
    IN  SelectSeq(mapped, LAMBDA r : r.idref \in used)

\* "Collect TOC entries with updated paths"
merge_updated_toc(toc_entries, rename_map) ==
    [k \in 1..Len(toc_entries) |->
        [toc_entries[k] EXCEPT !.href = RenameGet(rename_map, toc_entries[k].href)]]

---------------------------------------------------------------------------
(* merge_epub._write_epub                                                  *)

P_mimetype  == <<"m", "i", "m", "e", "t", "y", "p", "e">>
P_container == <<"M", "E", "T", "A", "-", "I", "N", "F", "/", "c", "o", "n", "t", "a", "i", "n", "e", "r", ".", "x", "m", "l">>

\* a variant of the loop that writes every pair it is given
RECURSIVE write_rest_nodedup(_, _, _)
write_rest_nodedup(all_files, written, entries) ==
    IF all_files = <<>> THEN entries
    ELSE write_rest_nodedup(Tail(all_files), written,
            Append(entries, [path |-> Head(all_files).bookpath, role |-> "content",
                             compress |-> "deflated", data |-> Head(all_files).data]))

\* the deduplicating loop over all_files
RECURSIVE write_rest(_, _, _)
write_rest(all_files, written, entries) ==
    IF all_files = <<>> THEN entries
    ELSE
        LET f == Head(all_files)
        IN  IF f.bookpath \notin written THEN
                write_rest(Tail(all_files), written \cup {f.bookpath},
                           Append(entries, [path |-> f.bookpath, role |-> "content",
                                            compress |-> "deflated", data |-> f.data]))
            ELSE write_rest(Tail(all_files), written, entries)

\* a variant that writes the OPF ahead of the mimetype entry
write_epub_opf_first(opf_path, opf_content, nav_path, nav_content, all_files) ==
    write_rest(all_files, {P_mimetype, P_container, opf_path, nav_path},
        << [path |-> opf_path, role |-> "opf", compress |-> "deflated", data |-> opf_content],
           [path |-> P_mimetype, role |-> "mimetype", compress |-> "stored", data |-> <<>>],
           [path |-> P_container, role |-> "container", compress |-> "deflated",
            data |-> opf_path],
           [path |-> nav_path, role |-> "toc", compress |-> "deflated",
            data |-> nav_content] >>)

\* the entries of the archive, in the order they are written; nav_content is
\* the generated document (never an empty string)
write_epub(opf_path, opf_content, nav_path, nav_content, all_files) ==
    LET fixed == << [path |-> P_mimetype, role |-> "mimetype",
                     compress |-> "stored", data |-> <<>>],
                    [path |-> P_container, role |-> "container",
                     compress |-> "deflated", data |-> opf_path],
                    [path |-> opf_path, role |-> "opf",
                     compress |-> "deflated", data |-> opf_content] >>
        toc   == IF nav_path # <<>>
                 THEN << [path |-> nav_path, role |-> "toc",
                          compress |-> "deflated", data |-> nav_content] >>
                 ELSE <<>>
        written == {P_mimetype, P_container, opf_path}
                     \cup (IF nav_path # <<>> THEN {nav_path} ELSE {})
    IN  write_rest(all_files, written, fixed \o toc)

---------------------------------------------------------------------------
(* The EPUB files of the model.                                            *)

Item(id, href, media_type, props) ==
    [id |-> id, href |-> href, media_type |-> media_type, props |-> props]

ItemRef(idref) == [idref |-> idref, linear |-> "", props |-> <<>>]

TocEntry(tag, title, href, level) ==
    [tag |-> tag, title |-> title, href |-> href, level |-> level]

Match(name, q, value) == [name |-> name, q |-> q, value |-> value]

V20 == <<"2", ".", "0">>
V30 == <<"3", ".", "0">>

P_opf     == <<"O", "E", "B", "P", "S", "/", "c", "o", "n", "t", "e", "n", "t", ".", "o", "p", "f">>
P_ch1     == <<"O", "E", "B", "P", "S", "/", "c", "h", "1", ".", "x", "h", "t", "m", "l">>
P_css     == <<"O", "E", "B", "P", "S", "/", "s", ".", "c", "s", "s">>
P_nav     == <<"O", "E", "B", "P", "S", "/", "n", "a", "v", ".", "x", "h", "t", "m", "l">>
P_ncx     == <<"O", "E", "B", "P", "S", "/", "t", "o", "c", ".", "n", "c", "x">>
P_png     == <<"O", "E", "B", "P", "S", "/", "i", ".", "p", "n", "g">>
P_ch9     == <<"O", "E", "B", "P", "S", "/", "c", "h", "9", ".", "x", "h", "t", "m", "l">>
P_rootopf == <<"c", "o", "n", "t", "e", "n", "t", ".", "o", "p", "f">>
P_v2ch1   == <<"O", "E", "B", "P", "S", "/", "v", "o", "l", "2", "_", "c", "h", "1", ".", "x", "h", "t", "m", "l">>

BlankBook ==
    [exists |-> TRUE, is_zip |-> TRUE, stem |-> <<"x">>, container |-> P_opf,
     namelist |-> <<P_mimetype, P_container, P_opf>>, corrupt |-> {},
     opf |-> [ok |-> TRUE, version |-> V30, items |-> <<>>, itemrefs |-> <<>>, toc |-> <<>>],
     toc_docs |-> <<>>, docs |-> <<>>, css |-> <<>>]

\* an EPUB3 book: one chapter linking a stylesheet, and a nav document
BookA(version) ==
    [BlankBook EXCEPT
        !.stem = <<"a">>,
        !.namelist = @ \o <<P_ch1, P_css, P_nav>>,
        !.opf = [@ EXCEPT
            !.version = version,
            !.items = << Item(<<"c", "1">>, <<"c", "h", "1", ".", "x", "h", "t", "m", "l">>, MT_XHTML, <<>>),
                         Item(<<"c", "s", "s">>, <<"s", ".", "c", "s", "s">>, MT_CSS, <<>>),
                         Item(<<"n", "a", "v">>, <<"n", "a", "v", ".", "x", "h", "t", "m", "l">>, MT_XHTML, <<"n", "a", "v">>) >>,
            !.itemrefs = << ItemRef(<<"c", "1">>) >>],
        !.toc_docs = P_nav :> [ok |-> TRUE, kind |-> "nav",
                               entries |-> << TocEntry("a", "One", <<"c", "h", "1", ".", "x", "h", "t", "m", "l">>, 1) >>],
        !.docs = P_ch1 :> << Match(A_href, "\"", <<"s", ".", "c", "s", "s">>) >>,
        !.css = P_css :> <<>>]

\* an EPUB2 book: a chapter of the same name, an NCX, and a manifest item
\* (i.png) whose file is not in the archive
BookB(version) ==
    [BlankBook EXCEPT
        !.stem = <<"b">>,
        !.namelist = @ \o <<P_ch1, P_ncx>>,
        !.opf = [@ EXCEPT
            !.version = version,
            !.items = << Item(<<"c", "1">>, <<"c", "h", "1", ".", "x", "h", "t", "m", "l">>, MT_XHTML, <<>>),
                         Item(<<"n", "c", "x">>, <<"t", "o", "c", ".", "n", "c", "x">>, MT_NCX, <<>>),
                         Item(<<"i", "m", "g">>, <<"i", ".", "p", "n", "g">>, MT_PNG, <<>>) >>,
            !.itemrefs = << ItemRef(<<"c", "1">>) >>,
            !.toc = <<"n", "c", "x">>],
        !.toc_docs = P_ncx :> [ok |-> TRUE, kind |-> "ncx",
                               entries |-> << TocEntry("navPoint", "Uno", <<"c", "h", "1", ".", "x", "h", "t", "m", "l", "#", "x">>, 1) >>],
        !.docs = P_ch1 :> << Match(A_src, "'", <<"i", ".", "p", "n", "g">>) >>]

\* a book without container.xml whose OPF lies at the archive root; its pages
\* bear the names the merge gives to its own nav document and to a renamed file
BookC ==
    [BlankBook EXCEPT
        !.stem = <<"c">>,
        !.container = <<>>,
        !.namelist = <<P_mimetype, P_rootopf, P_nav, P_v2ch1>>,
        !.opf = [@ EXCEPT
            !.items = << Item(<<"c", "1">>, P_v2ch1, MT_XHTML, <<>>),
                         Item(<<"p">>, P_nav, MT_XHTML, <<>>) >>,
            !.itemrefs = << ItemRef(<<"c", "1">>), ItemRef(<<"p">>) >>]]

\* a book one of whose members has a bad CRC
BookCorrupt ==
    [BlankBook EXCEPT
        !.stem = <<"d">>,
        !.namelist = @ \o <<P_ch9>>,
        !.corrupt = {P_ch9},
        !.opf = [@ EXCEPT
            !.items = << Item(<<"c", "9">>, <<"c", "h", "9", ".", "x", "h", "t", "m", "l">>, MT_XHTML, <<>>) >>,
            !.itemrefs = << ItemRef(<<"c", "9">>) >>]]

\* an archive with neither a container descriptor nor an .opf member
BookNoOpf == [BlankBook EXCEPT !.stem = <<"n">>, !.container = <<>>, !.namelist = <<P_mimetype>>]

\* an OPF that is not well-formed XML
BookBadOpf == [BlankBook EXCEPT !.stem = <<"o">>, !.opf = [@ EXCEPT !.ok = FALSE]]

\* a nav document that is not well-formed XML
BookBadToc ==
    [BookA(V30) EXCEPT
        !.stem = <<"t">>,
        !.toc_docs = P_nav :> [ok |-> FALSE, kind |-> "nav", entries |-> <<>>]]

\* a path that does not exist, and a file that is no zip archive
BookMissing == [BlankBook EXCEPT !.stem = <<"m">>, !.exists = FALSE, !.is_zip = FALSE]
BookNotZip  == [BlankBook EXCEPT !.stem = <<"z">>, !.is_zip = FALSE]

\* a book whose manifest ids are ids the merge makes up itself: the id of the
\* generated nav item, and the two candidates for a second source's "c1" when
\* four ids are in use
P_page == <<"O", "E", "B", "P", "S", "/", "p", ".", "x", "h", "t", "m", "l">>

BookIds ==
    [BlankBook EXCEPT
        !.stem = <<"i">>,
        !.namelist = @ \o <<P_ch1, P_page>>,
        !.opf = [@ EXCEPT
            !.items = << Item(<<"c", "1">>, <<"c", "h", "1", ".", "x", "h", "t", "m", "l">>, MT_XHTML, <<>>),
                         Item(<<"m", "e", "r", "g", "e", "d", "-", "n", "a", "v">>, <<"p", ".", "x", "h", "t", "m", "l">>, MT_XHTML, <<>>),
                         Item(<<"v", "o", "l", "2", "_", "c", "1">>, <<"q", ".", "x", "h", "t", "m", "l">>, MT_XHTML, <<>>),
                         Item(<<"v", "o", "l", "2", "_", "c", "1", "_", "4">>, <<"r", ".", "x", "h", "t", "m", "l">>, MT_XHTML, <<>>) >>,
            !.itemrefs = << ItemRef(<<"c", "1">>), ItemRef(<<"m", "e", "r", "g", "e", "d", "-", "n", "a", "v">>) >>]]

\* an EPUB3 book whose nav document is part of the spine; the id of its nav
\* item is the id of a page of BookC
BookNavInSpine ==
    [BookA(V30) EXCEPT
        !.stem = <<"e">>,
        !.opf = [@ EXCEPT
            !.items = << Item(<<"c", "1">>, <<"c", "h", "1", ".", "x", "h", "t", "m", "l">>, MT_XHTML, <<>>),
                         Item(<<"p">>, <<"n", "a", "v", ".", "x", "h", "t", "m", "l">>, MT_XHTML, <<"n", "a", "v">>) >>,
            !.itemrefs = << ItemRef(<<"p">>), ItemRef(<<"c", "1">>) >>]]

MergeCatalogue ==
    {BookA(V20), BookA(V30), BookB(V20), BookB(V30), BookC, BookCorrupt, BookIds,
     BookNavInSpine,
     BookNoOpf, BookBadOpf, BookBadToc, BookMissing, BookNotZip}

---------------------------------------------------------------------------
(* merge_epub.run / _do_merge as a state machine.                          *)

NoHelper == arg = <<>> /\ ret = <<>>

NoSplit == split_points = <<>> /\ split_ctx = <<>> /\ assigned_docs = {}

NoMergeYet ==
    /\ epub_data = <<>> /\ rename_maps = <<>> /\ output_version = <<>>
    /\ used_ids = {} /\ all_manifest_items = <<>> /\ all_spine_items = <<>>
    /\ all_toc_for_nav = <<>> /\ all_content_files = <<>>

InitMerge ==
    /\ op = "merge"
    /\ pc = "validate"
    /\ rc = -1
    /\ input_paths \in UNION {[1..n -> MergeCatalogue] : n \in 0..MaxSources}
    /\ idx = 0 /\ opened = {} /\ outputs = <<>> /\ err = ""
    /\ NoHelper /\ NoMergeYet /\ NoSplit /\ NoLog

\* return 1 from run() or from _do_merge, or an exception caught by run()
Fail(why) == rc' = 1 /\ err' = why /\ pc' = "done"

\* a variant that looks at the first input only
FirstInvalidHeadOnly(paths) ==
    IF paths # <<>> /\ (~paths[1].exists \/ ~paths[1].is_zip) THEN 1 ELSE 0

\* the position of the first input the validation loop rejects (0: none)
FirstInvalid(paths) ==
    IF \E k \in 1..Len(paths) : ~paths[k].exists \/ ~paths[k].is_zip
    THEN CHOOSE k \in 1..Len(paths) :
            /\ ~paths[k].exists \/ ~paths[k].is_zip
            /\ \A j \in 1..(k - 1) : paths[j].exists /\ paths[j].is_zip
    ELSE 0

\* run(): the length check and the validation loop over all inputs
MergeValidate ==
    /\ op = "merge" /\ pc = "validate"
    /\ LET bad == FirstInvalid(input_paths)
       IN  IF Len(input_paths) < 2 THEN Fail("too_few_inputs") /\ idx' = idx
           ELSE IF bad # 0 THEN
               Fail(IF ~input_paths[bad].exists THEN "missing_file" ELSE "not_zip") /\ idx' = idx
           ELSE pc' = "parse" /\ idx' = 1 /\ UNCHANGED <<rc, err>>
    /\ UNCHANGED <<op, logVars, helperVars, input_paths, opened, outputs, mergeVars, splitVars>>

\* phase 1, one iteration: open the archive, find and parse its OPF and TOC
MergeParse ==
    /\ op = "merge" /\ pc = "parse"
    /\ LET r == merge_parse_one(input_paths[idx])
       IN  CASE r.status = "no_opf" ->
                    \* zf.close() precedes the return
                    Fail("no_opf") /\ UNCHANGED <<opened, epub_data, idx>>
             [] r.status = "raise" ->
                    Fail("parse_error") /\ opened' = opened \cup {idx}
                    /\ UNCHANGED <<epub_data, idx>>
             [] OTHER ->
                    /\ opened' = opened \cup {idx}
                    /\ epub_data' = Append(epub_data, r)
                    /\ idx' = idx + 1
                    /\ pc' = IF idx = Len(input_paths) THEN "detect" ELSE "parse"
                    /\ UNCHANGED <<rc, err>>
    /\ UNCHANGED <<op, logVars, helperVars, input_paths, outputs, rename_maps, output_version,
                   used_ids, all_manifest_items, all_spine_items, all_toc_for_nav,
                   all_content_files, splitVars>>

\* phase 2 and the head of phase 3: rename maps and output version
MergeDetect ==
    /\ op = "merge" /\ pc = "detect"
    /\ rename_maps' = detect_conflicts([k \in 1..Len(epub_data) |-> epub_data[k].book_files])
    /\ output_version' = merge_output_version([k \in 1..Len(epub_data) |-> epub_data[k].version])
    /\ idx' = 1
    /\ pc' = "build"
    /\ UNCHANGED <<op, logVars, rc, helperVars, input_paths, opened, outputs, err, epub_data,
                   used_ids, all_manifest_items, all_spine_items, all_toc_for_nav,
                   all_content_files, splitVars>>

\* the tail of one iteration, given the outcome st of the manifest loop
MergeBuildVolume(data, rmap, st) ==
    CASE st.status = "raise" ->
             Fail("read_error")
             /\ UNCHANGED <<idx, used_ids, all_manifest_items, all_spine_items,
                            all_toc_for_nav, all_content_files>>
      [] st.status = "hang" ->
             pc' = "hang"
             /\ UNCHANGED <<rc, err, idx, used_ids, all_manifest_items,
                            all_spine_items, all_toc_for_nav, all_content_files>>
      [] OTHER ->
             /\ used_ids' = st.used_ids
             /\ all_manifest_items' = st.manifest_items
             /\ all_content_files' = st.content_files
             /\ all_spine_items' = all_spine_items \o
                     merge_spine_items(data.spine, st.id_remap, st.used_ids)
             /\ all_toc_for_nav' = Append(all_toc_for_nav,
                     [epub_title |-> data.stem,
                      entries |-> merge_updated_toc(data.toc_entries, rmap)])
             /\ idx' = idx + 1
             /\ pc' = IF idx = Len(epub_data) THEN "write" ELSE "build"
             /\ UNCHANGED <<rc, err>>

\* phase 3, one iteration of the volume loop
MergeBuild ==
    /\ op = "merge" /\ pc = "build"
    /\ MergeBuildVolume(epub_data[idx], rename_maps[idx],
            merge_manifest_loop(input_paths[idx], epub_data[idx], idx, rename_maps[idx],
                [k |-> 1, status |-> "ok", used_ids |-> used_ids, id_remap |-> <<>>,
                 manifest_items |-> all_manifest_items,
                 content_files |-> all_content_files]))
    /\ UNCHANGED <<op, logVars, helperVars, input_paths, opened, outputs, epub_data, rename_maps,
                   output_version, splitVars>>

nav_id == <<"m", "e", "r", "g", "e", "d", "-", "n", "a", "v">>

\* _generate_merged_nav: per source a <span> with its title and one <li> per
\* entry, a link relative to the directory of the nav document or a <span>
generate_merged_nav(all_toc_entries, nav_bookpath) ==
    [kind |-> "nav",
     toc  |-> [k \in 1..Len(all_toc_entries) |->
                 [epub_title |-> all_toc_entries[k].epub_title,
                  entries    |-> [j \in 1..Len(all_toc_entries[k].entries) |->
                      [title |-> all_toc_entries[k].entries[j].title,
                       href  |-> IF all_toc_entries[k].entries[j].href # <<>>
                                 THEN relpath(all_toc_entries[k].entries[j].href,
                                              dirname(nav_bookpath))
                                 ELSE <<>>]]]]]

\* f"merged_{first_name}.epub"
MergedFileName(first_name) == <<"m", "e", "r", "g", "e", "d", "_">> \o first_name \o <<".", "e", "p", "u", "b">>

\* phases 4 to 6: the nav item, the generated OPF and nav document, and the
\* writer
MergeWrite ==
    /\ op = "merge" /\ pc = "write"
    /\ LET manifest    == Append(all_manifest_items,
                               [id |-> nav_id,
                                href |-> relpath(merged_nav_bookpath, merged_opf_dir),
                                media_type |-> MT_XHTML, props |-> <<"n", "a", "v">>])
           opf_content == [version |-> output_version, manifest |-> manifest,
                           spine |-> all_spine_items, toc |-> <<>>]
           nav_content == generate_merged_nav(all_toc_for_nav, merged_nav_bookpath)
           name        == MergedFileName(input_paths[1].stem)
       IN  /\ all_manifest_items' = manifest
           /\ used_ids' = used_ids \cup {nav_id}
           /\ outputs' = Append(outputs,
                  [name      |-> name,
                   entries   |-> write_epub(merged_opf_path, opf_content,
                                            merged_nav_bookpath, nav_content,
                                            all_content_files),
                   unordered |-> {}])
           /\ pc' = "close"
           /\ UNCHANGED <<rc, err>>
    /\ UNCHANGED <<op, logVars, helperVars, input_paths, idx, opened, epub_data, rename_maps,
                   output_version, all_spine_items, all_toc_for_nav, all_content_files,
                   splitVars>>

\* "Close all zip files" and return 0
MergeClose ==
    /\ op = "merge" /\ pc = "close"
    /\ opened' = {}
    /\ rc' = 0
    /\ pc' = "done"
    /\ UNCHANGED <<op, logVars, helperVars, input_paths, idx, outputs, err, mergeVars, splitVars>>

\* After a failed run no statement closes the archives that epub_data and zf
\* held: ZipFile.__del__ closes each of them when the interpreter finalizes
\* the object, at a moment the language leaves to the interpreter.
MergeFinalize ==
    /\ op = "merge" /\ pc = "done"
    /\ opened # {}
    /\ opened' = {}
    /\ UNCHANGED <<op, pc, rc, logVars, helperVars, input_paths, idx, outputs, err,
                   mergeVars, splitVars>>

NextMerge ==
    \/ MergeValidate
    \/ MergeParse
    \/ MergeDetect
    \/ MergeBuild
    \/ MergeWrite
    \/ MergeClose
    \/ MergeFinalize

SpecMerge == InitMerge /\ [][NextMerge]_vars


---------------------------------------------------------------------------
(* Properties of the merge.                                                *)

\* the paths of the entries of a written archive
EntryPaths(out) == [k \in 1..Len(out.entries) |-> out.entries[k].path]

NoDuplicates(seq) == \A i, j \in 1..Len(seq) : seq[i] = seq[j] => i = j

ValidInput(book) == book.exists /\ book.is_zip

\* C3: the archive written by a merge of two or more sources never holds two
\* zip entries with the same path, whatever names the sources share with each
\* other or with the generated OPF and nav document.
C3_NoDuplicateEntries ==
    op = "merge" =>
        \A k \in 1..Len(outputs) :
            NoDuplicates(EntryPaths(outputs[k]))

\* a merge was written whose collected files repeat a path and include the
\* path of the generated nav document
C3_Witness ==
    /\ op = "merge" /\ pc = "done" /\ rc = 0
    /\ Len(input_paths) >= 2
    /\ ~NoDuplicates([k \in 1..Len(all_content_files) |-> all_content_files[k].bookpath])
    /\ \E k \in 1..Len(all_content_files) : all_content_files[k].bookpath = merged_nav_bookpath
    /\ outputs # <<>>

\* the version attribute of the OPF entry of a written archive
WrittenVersions(out) ==
    {out.entries[k].data.version : k \in {j \in 1..Len(out.entries) : out.entries[j].role = "opf"}}

\* C4: the merged OPF has version 3.0 whenever the source versions are not
\* all equal, and the shared version V when every source has version V.
C4_MergedVersion ==
    (op = "merge" /\ pc \in {"close", "done"} /\ outputs # <<>>) =>
        LET versions == {epub_data[k].version : k \in 1..Len(epub_data)}
        IN  /\ Cardinality(versions) > 1 => WrittenVersions(outputs[1]) = {<<"3", ".", "0">>}
            /\ Cardinality(versions) = 1 => WrittenVersions(outputs[1]) = versions

\* three sources, versions 2.0 and 3.0 both present, the first of them 2.0
C4_Witness ==
    /\ op = "merge" /\ pc = "done" /\ rc = 0
    /\ Len(epub_data) = 3
    /\ epub_data[1].version = V20
    /\ {epub_data[k].version : k \in 1..Len(epub_data)} = {V20, V30}
    /\ outputs # <<>>

\* a merge of sources that all have version 2.0 was written
C4_WitnessShared ==
    /\ op = "merge" /\ pc = "done" /\ rc = 0
    /\ {epub_data[k].version : k \in 1..Len(epub_data)} = {V20}
    /\ outputs # <<>>

\* C10: a merge given fewer than two inputs, or an input that does not exist
\* or is no zip archive, returns non-zero and writes no output; and every
\* input is validated before any input is opened and parsed.
C10_MergeInputValidation ==
    (op = "merge" /\ (Len(input_paths) < 2
                        \/ \E k \in 1..Len(input_paths) : ~ValidInput(input_paths[k]))) =>
        /\ pc \in {"validate", "done"}
        /\ pc = "done" => rc # 0
        /\ outputs = <<>>
        /\ opened = {} /\ epub_data = <<>>

\* a merge whose first input is a valid archive and whose last input is not
\* has returned
C10_Witness ==
    /\ op = "merge" /\ pc = "done" /\ rc = 1
    /\ Len(input_paths) >= 2
    /\ ValidInput(input_paths[1])
    /\ ~ValidInput(input_paths[Len(input_paths)])
    /\ outputs = <<>>


---------------------------------------------------------------------------
(* split_epub: the navigation targets.                                     *)

\* split_epub._parse_toc_nav_with_levels: one target per <a> and <span> of
\* the toc nav, with its depth; the href without fragment, percent-decoded
parse_toc_nav_with_levels(book, nav_path) ==
    LET es == TocDocEntries(book, nav_path, "nav")
    IN  IF ReadXml(book, nav_path) # "ok" THEN <<>>
        ELSE [k \in 1..Len(es) |->
                [title |-> es[k].title,
                 level |-> es[k].level,
                 href  |-> IF es[k].tag = "a" /\ split(es[k].href, "#")[1] # <<>>
                           THEN normpath(join(dirname(nav_path),
                                              unquote(split(es[k].href, "#")[1])))
                           ELSE <<>>]]

\* one navPoint as _walk_navpoints reads it
NcxTarget(e, ncx_dir) ==
    [title |-> e.title,
     level |-> e.level,
     href  |-> IF split(e.href, "#")[1] # <<>>
               THEN normpath(join(ncx_dir, split(e.href, "#")[1])) ELSE <<>>]

\* split_epub._parse_toc_ncx_with_levels: one target per navPoint that has a
\* title or an href; the href without fragment
parse_toc_ncx_with_levels(book, ncx_path) ==
    LET es == TocDocEntries(book, ncx_path, "ncx")
    IN  IF ReadXml(book, ncx_path) # "ok" THEN <<>>
        ELSE SelectSeq([k \in 1..Len(es) |-> NcxTarget(es[k], dirname(ncx_path))],
                       LAMBDA t : t.title # "" \/ t.href # <<>>)

\* the spine itemrefs that name a content document of the manifest
SpineContentRefs(manifest, spine) ==
    SelectSeq(spine, LAMBDA r :
        InManifest(manifest, r.idref)
        /\ IsContentDoc(ManifestGet(manifest, r.idref).media_type,
                        ManifestGet(manifest, r.idref).href))

\* a variant that lists the content documents in manifest order
spine_as_targets_manifest_order(manifest, spine, opf_dir) ==
    LET docs == SelectSeq(manifest, LAMBDA it : IsContentDoc(it.media_type, it.href))
    IN  [k \in 1..Len(docs) |->
            [title |-> basename(docs[k].href), level |-> 1,
             href  |-> BookPath(opf_dir, docs[k].href)]]

\* split_epub._spine_as_targets
spine_as_targets(manifest, spine, opf_dir) ==
    LET refs == SpineContentRefs(manifest, spine)
    IN  [k \in 1..Len(refs) |->
            [title |-> basename(ManifestGet(manifest, refs[k].idref).href),
             level |-> 1,
             href  |-> BookPath(opf_dir, ManifestGet(manifest, refs[k].idref).href)]]

\* list.index / "in" on a list: 1-based position of the first x, 0 when absent
IndexOf(seq, x) ==
    IF \E k \in 1..Len(seq) : seq[k] = x
    THEN CHOOSE k \in 1..Len(seq) : seq[k] = x /\ \A j \in 1..(k - 1) : seq[j] # x
    ELSE 0

\* a list without the repetitions of its elements, first occurrences kept
Dedup(seq) ==
    LET keep == {k \in 1..Len(seq) : \A j \in 1..(k - 1) : seq[j] # seq[k]}
        F[k \in 0..Len(seq)] ==
            IF k = 0 THEN <<>>
            ELSE IF k \in keep THEN Append(F[k - 1], seq[k]) ELSE F[k - 1]
    IN  F[Len(seq)]

\* "Build spine bookpath list": content documents of the spine, in order
spine_bookpaths(manifest, spine, opf_dir) ==
    LET refs == SpineContentRefs(manifest, spine)
    IN  Dedup([k \in 1..Len(refs) |->
                 BookPath(opf_dir, ManifestGet(manifest, refs[k].idref).href)])

\* spine_id_map[bp]: the last itemref of the spine whose document is bp
spine_id_map(manifest, spine, opf_dir, bp) ==
    LET refs == SpineContentRefs(manifest, spine)
        hits == {k \in 1..Len(refs) :
                    BookPath(opf_dir, ManifestGet(manifest, refs[k].idref).href) = bp}
    IN  refs[CHOOSE k \in hits : \A j \in hits : j <= k]

\* "Map TOC targets to spine positions": 0-based positions, -1 when absent
target_spine_indices(toc_targets, bookpaths) ==
    [k \in 1..Len(toc_targets) |-> IndexOf(bookpaths, toc_targets[k].href) - 1]

\* sorted(set(split_points))
RECURSIVE SortedSet(_)
SortedSet(S) ==
    IF S = {} THEN <<>>
    ELSE LET m == CHOOSE m \in S : \A x \in S : m <= x
         IN  <<m>> \o SortedSet(S \ {m})

sorted_points(points) == SortedSet(Range(points))

\* list[i] with a 0-based index; a negative index counts from the end
ListGet(seq, i) == IF i < 0 THEN seq[Len(seq) + i + 1] ELSE seq[i + 1]

\* the spine position of target pt (0-based): its own, else that of the next
\* target that has one, else the default
SpinePositionFrom(tsi, pt, default) ==
    IF ListGet(tsi, pt) >= 0 THEN ListGet(tsi, pt)
    ELSE IF \E j \in pt..(Len(tsi) - 1) : ListGet(tsi, j) >= 0
    THEN ListGet(tsi, CHOOSE j \in pt..(Len(tsi) - 1) :
                    ListGet(tsi, j) >= 0 /\ \A i \in pt..(j - 1) : ListGet(tsi, i) < 0)
    ELSE default

\* "Divide spine into segments": (start_spine, end_spine) per split point
segment_ranges(points, tsi, spine_len) ==
    [i \in 1..Len(points) |->
        << SpinePositionFrom(tsi, points[i], 0),
           IF i < Len(points) THEN SpinePositionFrom(tsi, points[i + 1], spine_len)
           ELSE spine_len >>]

---------------------------------------------------------------------------
(* split_epub._collect_referenced_resources                                *)

\* what (?:href|src)\s*=\s*["']([^"']*)["'] captures from an attribute
\* occurrence: the value up to its first quote character of either kind
CapturedRef(value) ==
    IF \E k \in 1..Len(value) : value[k] \in {"\"", "'"}
    THEN SubSeq(value, 1, (CHOOSE k \in 1..Len(value) :
                              /\ value[k] \in {"\"", "'"}
                              /\ \A j \in 1..(k - 1) : value[j] \notin {"\"", "'"}) - 1)
    ELSE value

\* the references the scan of a content document passes over
SkippedRef(ref) ==
    \/ ref = <<>>
    \/ startswith(ref, <<"h", "t", "t", "p", ":", "/", "/">>)
    \/ startswith(ref, <<"h", "t", "t", "p", "s", ":", "/", "/">>)
    \/ startswith(ref, <<"d", "a", "t", "a", ":">>)
    \/ startswith(ref, <<"#">>)

\* the manifest bookpaths one content document refers to
DocRefs(matches, content_dir, known) ==
    {normpath(join(content_dir, unquote(split(CapturedRef(matches[i].value), "#")[1]))) :
        i \in {j \in 1..Len(matches) :
                 /\ ~SkippedRef(CapturedRef(matches[j].value))
                 /\ split(CapturedRef(matches[j].value), "#")[1] # <<>>}} \cap known

\* the manifest bookpaths the url() occurrences of one stylesheet refer to
CssRefs(matches, css_dir, known) ==
    {normpath(join(css_dir, unquote(matches[i].value))) :
        i \in {j \in 1..Len(matches) :
                 matches[j].value # <<>> /\ ~startswith(matches[j].value, <<"d", "a", "t", "a", ":">>)}} \cap known

\* bp_to_manifest[bp] / all_bookpaths[bp]: the last manifest item at bookpath bp
BpItem(manifest, opf_dir, bp) ==
    manifest[CHOOSE k \in 1..Len(manifest) :
                /\ BookPath(opf_dir, manifest[k].href) = bp
                /\ \A j \in (k + 1)..Len(manifest) : BookPath(opf_dir, manifest[j].href) # bp]

\* epub_zip.read(bp) raises BadZipFile, which the scans do not catch
ReadRaises(book, bp) == bp \in Members(book) /\ bp \in book.corrupt

MatchesOf(table, bp) == IF bp \in DOMAIN table THEN table[bp] ELSE <<>>

\* second half: the stylesheets among the referenced files are scanned too
collect_css(book, manifest, opf_dir, known, referenced) ==
    IF \E bp \in referenced : IsStylesheet(BpItem(manifest, opf_dir, bp).media_type, bp)
                                /\ ReadRaises(book, bp)
    THEN [ok |-> FALSE, referenced |-> {}]
    ELSE [ok |-> TRUE,
          referenced |-> referenced \cup UNION {CssRefs(MatchesOf(book.css, bp), dirname(bp), known) :
              bp \in {c \in referenced \cap Members(book) :
                        IsStylesheet(BpItem(manifest, opf_dir, c).media_type, c)}}]

\* first half: the href/src references of the readable content documents
collect_docs(book, content_bookpaths, manifest, opf_dir, known) ==
    IF \E bp \in content_bookpaths : ReadRaises(book, bp)
    THEN [ok |-> FALSE, referenced |-> {}]
    ELSE collect_css(book, manifest, opf_dir, known,
             UNION {DocRefs(MatchesOf(book.docs, bp), dirname(bp), known) :
                       bp \in content_bookpaths \cap Members(book)})

\* _collect_referenced_resources; ok = FALSE: an uncaught exception
collect_referenced_resources(book, content_bookpaths, manifest, opf_dir) ==
    collect_docs(book, content_bookpaths, manifest, opf_dir,
                 {BookPath(opf_dir, manifest[k].href) : k \in 1..Len(manifest)})

---------------------------------------------------------------------------
(* split_epub._do_split: one segment.                                      *)

\* the elements of seq at the positions in keep, in order
Pick(seq, keep) ==
    LET F[k \in 0..Len(seq)] ==
            IF k = 0 THEN <<>>
            ELSE IF k \in keep THEN Append(F[k - 1], seq[k]) ELSE F[k - 1]
    IN  F[Len(seq)]

\* a < b for str: code points compared position by position
RECURSIVE StrLess(_, _)
StrLess(a, b) ==
    IF b = <<>> THEN FALSE
    ELSE IF a = <<>> THEN TRUE
    ELSE IF a[1] = b[1] THEN StrLess(Tail(a), Tail(b))
    ELSE ord(a[1]) < ord(b[1])

\* sorted(set of str)
RECURSIVE SortedPaths(_)
SortedPaths(S) ==
    IF S = {} THEN <<>>
    ELSE LET m == CHOOSE m \in S : \A x \in S \ {m} : StrLess(m, x)
         IN  <<m>> \o SortedPaths(S \ {m})

\* a variant that takes every document of the range, claimed or not
seg_content_bps_whole_range(bookpaths, start_sp, end_sp, assigned) ==
    SubSeq(bookpaths, start_sp + 1, end_sp)

\* "Content docs for this segment (from spine)"
seg_content_bps(bookpaths, start_sp, end_sp, assigned) ==
    SelectSeq(SubSeq(bookpaths, start_sp + 1, end_sp), LAMBDA bp : bp \notin assigned)

\* seg_resource_bps after the content docs, the nav and the NCX are removed
seg_resource_bps(referenced, content_bps, nav_item_path, ncx_item_path) ==
    ((referenced \ Range(content_bps))
        \ (IF nav_item_path # <<>> THEN {nav_item_path} ELSE {}))
        \ (IF ncx_item_path # <<>> THEN {ncx_item_path} ELSE {})

\* the manifest entry of the segment for the file at bp
SegManifestItem(manifest, opf_dir, bp) ==
    [id         |-> BpItem(manifest, opf_dir, bp).id,
     href       |-> relpath(bp, opf_dir),
     media_type |-> BpItem(manifest, opf_dir, bp).media_type,
     props      |-> StripNavProp(BpItem(manifest, opf_dir, bp).props)]

\* "Build manifest for this segment": content docs, then sorted resources
seg_manifest_items(manifest, opf_dir, content_bps, resource_bps) ==
    [k \in 1..Len(content_bps) |-> SegManifestItem(manifest, opf_dir, content_bps[k])]
    \o [k \in 1..Cardinality(resource_bps) |->
            SegManifestItem(manifest, opf_dir, SortedPaths(resource_bps)[k])]

seg_spine_items(manifest, spine, opf_dir, content_bps) ==
    [k \in 1..Len(content_bps) |-> spine_id_map(manifest, spine, opf_dir, content_bps[k])]

\* "Generate TOC for this segment": the targets whose document is in the
\* segment, and the targets without href whose next target with an href is
seg_toc_entries(toc_targets, content_set) ==
    Pick(toc_targets,
         {t \in 1..Len(toc_targets) :
            \/ toc_targets[t].href \in content_set
            \/ /\ toc_targets[t].href = <<>>
               /\ \E n \in (t + 1)..Len(toc_targets) :
                    /\ toc_targets[n].href \in content_set
                    /\ toc_targets[n].href # <<>>
                    /\ \A j \in (t + 1)..(n - 1) : toc_targets[j].href = <<>>})

is_epub3(version) == startswith(version, <<"3">>)

toc_bookpath(version, opf_dir) ==
    IF is_epub3(version) THEN join(opf_dir, <<"n", "a", "v", "_", "s", "p", "l", "i", "t", ".", "x", "h", "t", "m", "l">>)
    ELSE join(opf_dir, <<"t", "o", "c", "_", "s", "p", "l", "i", "t", ".", "n", "c", "x">>)

split_nav_id == <<"s", "p", "l", "i", "t", "-", "n", "a", "v">>
split_ncx_id == <<"s", "p", "l", "i", "t", "-", "n", "c", "x">>

\* the manifest entry appended for the generated TOC document
SegTocItem(version, opf_dir) ==
    IF is_epub3(version)
    THEN [id |-> split_nav_id, href |-> relpath(toc_bookpath(version, opf_dir), opf_dir),
          media_type |-> MT_XHTML, props |-> <<"n", "a", "v">>]
    ELSE [id |-> split_ncx_id, href |-> relpath(toc_bookpath(version, opf_dir), opf_dir),
          media_type |-> MT_NCX, props |-> <<>>]

\* _generate_split_nav: one <li> per entry, a link or a span
generate_split_nav(entries, nav_bookpath) ==
    [kind    |-> "nav",
     entries |-> [k \in 1..Len(entries) |->
                    [title |-> entries[k].title,
                     href  |-> IF entries[k].href # <<>>
                               THEN relpath(entries[k].href, dirname(nav_bookpath))
                               ELSE <<>>]]]

\* _generate_split_ncx: one navPoint per entry that has an href
generate_split_ncx(entries, ncx_bookpath) ==
    [kind    |-> "ncx",
     entries |-> [k \in 1..Len(SelectSeq(entries, LAMBDA e : e.href # <<>>)) |->
                    [title |-> SelectSeq(entries, LAMBDA e : e.href # <<>>)[k].title,
                     href  |-> relpath(SelectSeq(entries, LAMBDA e : e.href # <<>>)[k].href,
                                       dirname(ncx_bookpath))]]]

\* a variant that always declares an EPUB3 package
split_opf_version_always3(version) == <<"3", ".", "0">>

\* the version attribute _generate_split_opf writes
split_opf_version(version) == version

\* _generate_split_opf: version, manifest, spine and the spine's toc attribute
generate_split_opf(manifest_items, spine_items, version) ==
    [version  |-> split_opf_version(version),
     manifest |-> manifest_items,
     spine    |-> spine_items,
     toc      |-> IF ~is_epub3(version)
                     /\ \E k \in 1..Len(manifest_items) : manifest_items[k].media_type = MT_NCX
                  THEN manifest_items[CHOOSE k \in 1..Len(manifest_items) :
                          /\ manifest_items[k].media_type = MT_NCX
                          /\ \A j \in 1..(k - 1) : manifest_items[j].media_type # MT_NCX].id
                  ELSE <<>>]

---------------------------------------------------------------------------
(* split_epub._write_split_epub                                            *)
(*                                                                         *)
(* files_data is filled by iterating over a set of bookpaths, so the order *)
(* of the copied members in the archive is not fixed by the code: a        *)
(* written archive is its leading entries, in order, and the set of the    *)
(* members that follow them.                                               *)

\* the (bookpath, data) pairs of the members zf.read finds; a member that is
\* missing from the archive is passed over with a warning
files_data(book, all_seg_bps) ==
    {[bookpath |-> bp, data |-> [path |-> bp]] : bp \in all_seg_bps \cap Members(book)}

\* a variant of the writer that leaves the TOC document out
write_split_epub_no_toc(opf_path, opf_content, toc_path, toc_content, files) ==
    [entries   |-> << [path |-> P_mimetype, role |-> "mimetype",
                       compress |-> "stored", data |-> <<>>],
                      [path |-> P_container, role |-> "container",
                       compress |-> "deflated", data |-> opf_path],
                      [path |-> opf_path, role |-> "opf",
                       compress |-> "deflated", data |-> opf_content] >>,
     unordered |-> {[path |-> f.bookpath, role |-> "content",
                     compress |-> "deflated", data |-> f.data] :
                        f \in {g \in files : g.bookpath \notin {P_mimetype, P_container, opf_path}}}]

\* _write_split_epub; toc_content is the generated document (never empty)
write_split_epub(opf_path, opf_content, toc_path, toc_content, files) ==
    [entries   |-> << [path |-> P_mimetype, role |-> "mimetype",
                       compress |-> "stored", data |-> <<>>],
                      [path |-> P_container, role |-> "container",
                       compress |-> "deflated", data |-> opf_path],
                      [path |-> opf_path, role |-> "opf",
                       compress |-> "deflated", data |-> opf_content] >>
                   \o (IF toc_path # <<>>
                       THEN << [path |-> toc_path, role |-> "toc",
                                compress |-> "deflated", data |-> toc_content] >>
                       ELSE <<>>),
     unordered |-> {[path |-> f.bookpath, role |-> "content",
                     compress |-> "deflated", data |-> f.data] :
                        f \in {g \in files :
                                 g.bookpath \notin ({P_mimetype, P_container, opf_path}
                                    \cup (IF toc_path # <<>> THEN {toc_path} ELSE {}))}}]

\* f"{seg_num:02d}"
Pad2(n) == IF n < 10 THEN <<"0">> \o IntToStr(n) ELSE IntToStr(n)

\* f"{basename}_{seg_num:02d}.epub"
SegFileName(stem, seg_num) == stem \o <<"_">> \o Pad2(seg_num) \o <<".", "e", "p", "u", "b">>

---------------------------------------------------------------------------
(* split_epub._do_split up to its segment loop. The result has a status:   *)
(* "no_opf", "no_targets", "bad_point" (the three return 1), "raise" (an   *)
(* exception that run() catches) or "ok".                                  *)

\* a variant that checks the upper limit only
BadPointUpperOnly(pt, n) == pt >= n

\* "Validate split points": pt < 0 or pt >= len(toc_targets)
BadPoint(pt, n) == pt < 0 \/ pt >= n

\* "Build spine bookpath list" to "Divide spine into segments"
split_plan(book, points, opf_path, po, nav_item_path, ncx_item_path, toc_targets, used_spine_fallback, bookpaths) ==
    [status              |-> "ok",
     opf_path            |-> opf_path,
     opf_dir             |-> po.opf_dir,
     version             |-> po.version,
     manifest            |-> po.manifest,
     spine               |-> po.spine,
     toc_targets         |-> toc_targets,
     nav_item_path       |-> nav_item_path,
     ncx_item_path       |-> ncx_item_path,
     used_spine_fallback |-> used_spine_fallback,
     spine_bookpaths     |-> bookpaths,
     segment_ranges      |-> segment_ranges(sorted_points(points),
                                            target_spine_indices(toc_targets, bookpaths),
                                            Len(bookpaths)),
     basename            |-> book.stem]

split_validate(book, points, opf_path, po, nav_item_path, ncx_item_path, toc_targets, used_spine_fallback) ==
    IF toc_targets = <<>> THEN [status |-> "no_targets"]
    ELSE IF \E pt \in Range(points) : BadPoint(pt, Len(toc_targets))
    THEN [status |-> "bad_point"]
    ELSE split_plan(book, points, opf_path, po, nav_item_path, ncx_item_path, toc_targets,
                    used_spine_fallback,
                    spine_bookpaths(po.manifest, po.spine, po.opf_dir))

\* "Fallback to spine"
split_fallback(book, points, opf_path, po, nav_item_path, ncx_item_path, toc_targets) ==
    IF toc_targets = <<>>
    THEN split_validate(book, points, opf_path, po, nav_item_path, ncx_item_path,
                        spine_as_targets(po.manifest, po.spine, po.opf_dir), TRUE)
    ELSE split_validate(book, points, opf_path, po, nav_item_path, ncx_item_path,
                        toc_targets, FALSE)

split_ncx_read(book, points, opf_path, po, nav_item_path, ncx_item_path) ==
    IF ReadXml(book, ncx_item_path) = "raise" THEN [status |-> "raise"]
    ELSE split_fallback(book, points, opf_path, po, nav_item_path, ncx_item_path,
                        parse_toc_ncx_with_levels(book, ncx_item_path))

\* "Fallback to NCX"
split_ncx(book, points, opf_path, po, nav_item_path, nav_targets) ==
    IF nav_targets = <<>> /\ po.toc_id # <<>> /\ InManifest(po.manifest, po.toc_id)
    THEN split_ncx_read(book, points, opf_path, po, nav_item_path,
                        BookPath(po.opf_dir, ManifestGet(po.manifest, po.toc_id).href))
    ELSE split_fallback(book, points, opf_path, po, nav_item_path, <<>>, nav_targets)

\* "Try EPUB3 nav"; <<>> stands for nav_item_path = None
split_nav(book, points, opf_path, po, nav_item_path) ==
    IF nav_item_path # <<>> /\ ReadXml(book, nav_item_path) = "raise" THEN [status |-> "raise"]
    ELSE split_ncx(book, points, opf_path, po, nav_item_path,
                   IF nav_item_path # <<>>
                   THEN parse_toc_nav_with_levels(book, nav_item_path) ELSE <<>>)

split_parsed(book, points, opf_path, po) ==
    IF ~po.ok THEN [status |-> "raise"]
    ELSE split_nav(book, points, opf_path, po,
                   IF FirstNavItem(po.manifest) = 0 THEN <<>>
                   ELSE BookPath(po.opf_dir, po.manifest[FirstNavItem(po.manifest)].href))

split_prepare(book, points) ==
    IF find_opf_path(book) = <<>> THEN [status |-> "no_opf"]
    ELSE split_parsed(book, points, find_opf_path(book),
                      parse_opf(book, find_opf_path(book)))

---------------------------------------------------------------------------
(* The EPUB files given to the split.                                      *)

P_ch2   == <<"O", "E", "B", "P", "S", "/", "c", "h", "2", ".", "x", "h", "t", "m", "l">>
P_ch3   == <<"O", "E", "B", "P", "S", "/", "c", "h", "3", ".", "x", "h", "t", "m", "l">>
P_ch4   == <<"O", "E", "B", "P", "S", "/", "c", "h", "4", ".", "x", "h", "t", "m", "l">>
P_notes == <<"O", "E", "B", "P", "S", "/", "n", "o", "t", "e", "s", ".", "x", "h", "t", "m", "l">>

Chapter(n) == Item(<<"c", n>>, <<"c", "h", n>> \o <<".", "x", "h", "t", "m", "l">>, MT_XHTML, <<>>)

NavLink(title, href) == TocEntry("a", title, href, 1)

\* four chapters, each a target of the nav document and of the NCX, in spine
\* order; a stylesheet that loads an image; a link from chapter 3 to chapter 1
SplitBook4(version) ==
    [BlankBook EXCEPT
        !.stem = <<"b", "o", "o", "k">>,
        !.namelist = @ \o <<P_ch1, P_ch2, P_ch3, P_ch4, P_css, P_png, P_nav, P_ncx>>,
        !.opf = [@ EXCEPT
            !.version = version,
            !.items = << Chapter("1"), Chapter("2"), Chapter("3"), Chapter("4"),
                         Item(<<"c", "s", "s">>, <<"s", ".", "c", "s", "s">>, MT_CSS, <<>>),
                         Item(<<"i", "m", "g">>, <<"i", ".", "p", "n", "g">>, MT_PNG, <<>>),
                         Item(<<"n", "a", "v">>, <<"n", "a", "v", ".", "x", "h", "t", "m", "l">>, MT_XHTML, <<"n", "a", "v">>),
                         Item(<<"n", "c", "x">>, <<"t", "o", "c", ".", "n", "c", "x">>, MT_NCX, <<>>) >>,
            !.itemrefs = << ItemRef(<<"c", "1">>), ItemRef(<<"c", "2">>), ItemRef(<<"c", "3">>), ItemRef(<<"c", "4">>) >>,
            !.toc = <<"n", "c", "x">>],
        !.toc_docs = (P_nav :> [ok |-> TRUE, kind |-> "nav",
                                entries |-> << NavLink("One", <<"c", "h", "1", ".", "x", "h", "t", "m", "l">>),
                                               NavLink("Two", <<"c", "h", "2", ".", "x", "h", "t", "m", "l">>),
                                               NavLink("Three", <<"c", "h", "3", ".", "x", "h", "t", "m", "l", "#", "x">>),
                                               NavLink("Four", <<"c", "h", "4", ".", "x", "h", "t", "m", "l">>) >>])
                     @@ (P_ncx :> [ok |-> TRUE, kind |-> "ncx",
                                   entries |-> << TocEntry("navPoint", "One", <<"c", "h", "1", ".", "x", "h", "t", "m", "l">>, 1),
                                                  TocEntry("navPoint", "Two", <<"c", "h", "2", ".", "x", "h", "t", "m", "l">>, 1),
                                                  TocEntry("navPoint", "Three", <<"c", "h", "3", ".", "x", "h", "t", "m", "l">>, 1),
                                                  TocEntry("navPoint", "Four", <<"c", "h", "4", ".", "x", "h", "t", "m", "l">>, 1) >>]),
        !.docs = (P_ch1 :> << Match(A_href, "\"", <<"s", ".", "c", "s", "s">>) >>)
                 @@ (P_ch3 :> << Match(A_href, "\"", <<"c", "h", "1", ".", "x", "h", "t", "m", "l", "#", "t", "o", "p">>),
                                 Match(A_href, "'", <<"h", "t", "t", "p", ":", "/", "/", "x">>) >>),
        !.css = P_css :> << [q |-> <<>>, value |-> <<"i", ".", "p", "n", "g">>] >>]

\* an EPUB2 book with an NCX only; chapter 2 shows an image that the manifest
\* lists and the archive lacks
SplitBookNcx ==
    [BlankBook EXCEPT
        !.stem = <<"t", "w", "o">>,
        !.namelist = @ \o <<P_ch1, P_ch2, P_ch3, P_ncx>>,
        !.opf = [@ EXCEPT
            !.version = V20,
            !.items = << Chapter("1"), Chapter("2"), Chapter("3"),
                         Item(<<"i", "m", "g">>, <<"i", ".", "p", "n", "g">>, MT_PNG, <<>>),
                         Item(<<"n", "c", "x">>, <<"t", "o", "c", ".", "n", "c", "x">>, MT_NCX, <<>>) >>,
            !.itemrefs = << ItemRef(<<"c", "1">>), ItemRef(<<"c", "2">>), ItemRef(<<"c", "3">>) >>,
            !.toc = <<"n", "c", "x">>],
        !.toc_docs = P_ncx :> [ok |-> TRUE, kind |-> "ncx",
                               entries |-> << TocEntry("navPoint", "One", <<"c", "h", "1", ".", "x", "h", "t", "m", "l">>, 1),
                                              TocEntry("navPoint", "Two", <<"c", "h", "2", ".", "x", "h", "t", "m", "l", "#", "a">>, 2),
                                              TocEntry("navPoint", "Three", <<"c", "h", "3", ".", "x", "h", "t", "m", "l">>, 1) >>],
        !.docs = P_ch2 :> << Match(A_src, "\"", <<"i", ".", "p", "n", "g">>) >>]

\* a nav document whose targets do not follow the spine one to one: two
\* entries for chapter 1, a heading without link, a page outside the spine;
\* chapter 3 is in no entry
SplitBookLoose ==
    [BlankBook EXCEPT
        !.stem = <<"l", "o", "o", "s", "e">>,
        !.namelist = @ \o <<P_ch1, P_ch2, P_ch3, P_notes, P_nav>>,
        !.opf = [@ EXCEPT
            !.items = << Chapter("1"), Chapter("2"), Chapter("3"),
                         Item(<<"n", "o", "t", "e", "s">>, <<"n", "o", "t", "e", "s", ".", "x", "h", "t", "m", "l">>, MT_XHTML, <<>>),
                         Item(<<"n", "a", "v">>, <<"n", "a", "v", ".", "x", "h", "t", "m", "l">>, MT_XHTML, <<"n", "a", "v">>) >>,
            !.itemrefs = << ItemRef(<<"c", "1">>), ItemRef(<<"c", "2">>), ItemRef(<<"c", "3">>) >>],
        !.toc_docs = P_nav :> [ok |-> TRUE, kind |-> "nav",
                               entries |-> << NavLink("One", <<"c", "h", "1", ".", "x", "h", "t", "m", "l">>),
                                              NavLink("One b", <<"c", "h", "1", ".", "x", "h", "t", "m", "l", "#", "b">>),
                                              TocEntry("span", "Part", <<>>, 1),
                                              NavLink("Notes", <<"n", "o", "t", "e", "s", ".", "x", "h", "t", "m", "l">>),
                                              NavLink("Two", <<"c", "h", "2", ".", "x", "h", "t", "m", "l">>) >>],
        !.docs = P_ch2 :> << Match(A_href, "\"", <<"n", "o", "t", "e", "s", ".", "x", "h", "t", "m", "l">>) >>]

\* no nav document and no NCX: the spine gives the targets
SplitBookSpineOnly ==
    [BlankBook EXCEPT
        !.stem = <<"p", "l", "a", "i", "n">>,
        !.namelist = @ \o <<P_ch1, P_ch2, P_ch3>>,
        !.opf = [@ EXCEPT
            !.version = V20,
            !.items = << Chapter("1"), Chapter("2"), Chapter("3") >>,
            !.itemrefs = << ItemRef(<<"c", "1">>), ItemRef(<<"c", "2">>), ItemRef(<<"c", "3">>) >>]]

\* three chapters, one target each; the archive member of the given path has
\* a bad CRC
SplitBookCorrupt(stem, bad) ==
    [BlankBook EXCEPT
        !.stem = stem,
        !.namelist = @ \o <<P_ch1, P_ch2, P_ch3, P_png, P_nav>>,
        !.corrupt = {bad},
        !.opf = [@ EXCEPT
            !.items = << Chapter("1"), Chapter("2"), Chapter("3"),
                         Item(<<"i", "m", "g">>, <<"i", ".", "p", "n", "g">>, MT_PNG, <<>>),
                         Item(<<"n", "a", "v">>, <<"n", "a", "v", ".", "x", "h", "t", "m", "l">>, MT_XHTML, <<"n", "a", "v">>) >>,
            !.itemrefs = << ItemRef(<<"c", "1">>), ItemRef(<<"c", "2">>), ItemRef(<<"c", "3">>) >>],
        !.toc_docs = P_nav :> [ok |-> TRUE, kind |-> "nav",
                               entries |-> << NavLink("One", <<"c", "h", "1", ".", "x", "h", "t", "m", "l">>),
                                              NavLink("Two", <<"c", "h", "2", ".", "x", "h", "t", "m", "l">>),
                                              NavLink("Three", <<"c", "h", "3", ".", "x", "h", "t", "m", "l">>) >>],
        !.docs = P_ch2 :> << Match(A_src, "\"", <<"i", ".", "p", "n", "g">>) >>]

\* two manifest items with the same href; the spine names the first of them
SplitBookSharedHref ==
    [BlankBook EXCEPT
        !.stem = <<"s", "h", "a", "r", "e", "d">>,
        !.namelist = @ \o <<P_ch1, P_ch2>>,
        !.opf = [@ EXCEPT
            !.items = << Item(<<"a">>, <<"c", "h", "1", ".", "x", "h", "t", "m", "l">>, MT_XHTML, <<>>),
                         Item(<<"b">>, <<"c", "h", "1", ".", "x", "h", "t", "m", "l">>, MT_XHTML, <<>>),
                         Chapter("2") >>,
            !.itemrefs = << ItemRef(<<"a">>), ItemRef(<<"c", "2">>) >>]]

\* a nav document that lists the chapters out of spine order (chapter 2, then
\* chapter 1) and ends with a page outside the spine
SplitBookReordered ==
    [BlankBook EXCEPT
        !.stem = <<"r", "e">>,
        !.namelist = @ \o <<P_ch1, P_ch2, P_ch3, P_notes, P_nav>>,
        !.opf = [@ EXCEPT
            !.items = << Chapter("1"), Chapter("2"), Chapter("3"),
                         Item(<<"n", "o", "t", "e", "s">>, <<"n", "o", "t", "e", "s", ".", "x", "h", "t", "m", "l">>, MT_XHTML, <<>>),
                         Item(<<"n", "a", "v">>, <<"n", "a", "v", ".", "x", "h", "t", "m", "l">>, MT_XHTML, <<"n", "a", "v">>) >>,
            !.itemrefs = << ItemRef(<<"c", "1">>), ItemRef(<<"c", "2">>), ItemRef(<<"c", "3">>) >>],
        !.toc_docs = P_nav :> [ok |-> TRUE, kind |-> "nav",
                               entries |-> << NavLink("Two", <<"c", "h", "2", ".", "x", "h", "t", "m", "l">>),
                                              NavLink("One", <<"c", "h", "1", ".", "x", "h", "t", "m", "l">>),
                                              NavLink("Notes", <<"n", "o", "t", "e", "s", ".", "x", "h", "t", "m", "l">>) >>]]

P_css2 == <<"O", "E", "B", "P", "S", "/", "t", ".", "c", "s", "s">>

\* chapter 1 links a stylesheet that imports a second stylesheet, which loads
\* an image; chapter 2 links chapter 1
SplitBookChain ==
    [BlankBook EXCEPT
        !.stem = <<"c", "h", "a", "i", "n">>,
        !.namelist = @ \o <<P_ch1, P_ch2, P_css, P_css2, P_png, P_nav>>,
        !.opf = [@ EXCEPT
            !.items = << Chapter("1"), Chapter("2"),
                         Item(<<"s">>, <<"s", ".", "c", "s", "s">>, MT_CSS, <<>>),
                         Item(<<"t">>, <<"t", ".", "c", "s", "s">>, MT_CSS, <<>>),
                         Item(<<"i", "m", "g">>, <<"i", ".", "p", "n", "g">>, MT_PNG, <<>>),
                         Item(<<"n", "a", "v">>, <<"n", "a", "v", ".", "x", "h", "t", "m", "l">>, MT_XHTML, <<"n", "a", "v">>) >>,
            !.itemrefs = << ItemRef(<<"c", "1">>), ItemRef(<<"c", "2">>) >>],
        !.toc_docs = P_nav :> [ok |-> TRUE, kind |-> "nav",
                               entries |-> << NavLink("One", <<"c", "h", "1", ".", "x", "h", "t", "m", "l">>),
                                              NavLink("Two", <<"c", "h", "2", ".", "x", "h", "t", "m", "l">>) >>],
        !.docs = (P_ch1 :> << Match(A_href, "\"", <<"s", ".", "c", "s", "s">>) >>)
                 @@ (P_ch2 :> << Match(A_href, "\"", <<"c", "h", "1", ".", "x", "h", "t", "m", "l", "#", "t", "o", "p">>) >>),
        !.css = (P_css :> << [q |-> <<"\"">>, value |-> <<"t", ".", "c", "s", "s">>] >>)
                @@ (P_css2 :> << [q |-> <<>>, value |-> <<"i", ".", "p", "n", "g">>] >>)]

SplitCatalogue ==
    {SplitBook4(V20), SplitBook4(V30), SplitBookNcx, SplitBookLoose, SplitBookSpineOnly,
     SplitBookSharedHref, SplitBookReordered, SplitBookChain,
     SplitBookCorrupt(<<"b", "a", "d">>, P_ch3), SplitBookCorrupt(<<"i", "m", "g">>, P_png),
     BlankBook, BookNoOpf, BookBadOpf, BookBadToc, BookMissing, BookNotZip}

---------------------------------------------------------------------------
(* split_epub.run / _do_split as a state machine.                          *)

MaxPoints     == 2
MaxPointIndex == 4

InitSplit ==
    /\ op = "split"
    /\ pc = "validate"
    /\ rc = -1
    /\ input_paths \in {<<b>> : b \in SplitCatalogue}
    /\ split_points \in UNION {[1..n -> (-1)..MaxPointIndex] : n \in 0..MaxPoints}
    /\ idx = 0 /\ opened = {} /\ outputs = <<>> /\ err = ""
    /\ split_ctx = <<>> /\ assigned_docs = {}
    /\ NoHelper /\ NoMergeYet /\ NoLog

\* run(): the two checks of the input path
SplitValidate ==
    /\ op = "split" /\ pc = "validate"
    /\ IF ~input_paths[1].exists THEN Fail("missing_file")
       ELSE IF ~input_paths[1].is_zip THEN Fail("not_zip")
       ELSE pc' = "prepare" /\ UNCHANGED <<rc, err>>
    /\ UNCHANGED <<op, logVars, helperVars, input_paths, idx, opened, outputs, mergeVars, splitVars>>

\* the outcome r of the code before the segment loop; the with block closes
\* the archive on every return and exception
SplitPrepared(r) ==
    CASE r.status = "ok" ->
             /\ split_ctx' = r
             /\ idx' = 1
             /\ opened' = {1}
             /\ pc' = IF r.segment_ranges = <<>> THEN "return" ELSE "segment"
             /\ UNCHANGED <<rc, err>>
      [] r.status = "raise" ->
             Fail("parse_error") /\ UNCHANGED <<split_ctx, idx, opened>>
      [] OTHER ->
             Fail(r.status) /\ UNCHANGED <<split_ctx, idx, opened>>

\* _do_split from the opening of the archive to the segment loop
SplitPrepare ==
    /\ op = "split" /\ pc = "prepare"
    /\ SplitPrepared(split_prepare(input_paths[1], split_points))
    /\ UNCHANGED <<op, logVars, helperVars, input_paths, outputs, mergeVars, split_points, assigned_docs>>

\* the end of one iteration of the segment loop
SplitAdvance ==
    /\ idx' = idx + 1
    /\ pc' = IF idx = Len(split_ctx.segment_ranges) THEN "return" ELSE "segment"
    /\ UNCHANGED <<rc, err, opened>>

\* an exception leaves the with block and is caught by run()
SplitRaise ==
    Fail("read_error") /\ opened' = {} /\ UNCHANGED <<idx, outputs>>

\* "Build manifest", "Generate TOC", "Generate OPF", "Collect file data" and
\* "Write EPUB" for the content documents and resources of one segment
SplitWrite(book, ctx, content, resources) ==
    IF \E bp \in Range(content) \cup resources : ReadRaises(book, bp) THEN SplitRaise
    ELSE
        /\ outputs' = Append(outputs,
               [name |-> SegFileName(ctx.basename, idx)] @@
               write_split_epub(
                   ctx.opf_path,
                   generate_split_opf(
                       Append(seg_manifest_items(ctx.manifest, ctx.opf_dir, content, resources),
                              SegTocItem(ctx.version, ctx.opf_dir)),
                       seg_spine_items(ctx.manifest, ctx.spine, ctx.opf_dir, content),
                       ctx.version),
                   toc_bookpath(ctx.version, ctx.opf_dir),
                   IF is_epub3(ctx.version)
                   THEN generate_split_nav(seg_toc_entries(ctx.toc_targets, Range(content)),
                                           toc_bookpath(ctx.version, ctx.opf_dir))
                   ELSE generate_split_ncx(seg_toc_entries(ctx.toc_targets, Range(content)),
                                           toc_bookpath(ctx.version, ctx.opf_dir)),
                   files_data(book, Range(content) \cup resources)))
        /\ SplitAdvance

\* "Collect referenced resources" and what follows it
SplitCollected(book, ctx, content, res) ==
    IF ~res.ok THEN SplitRaise
    ELSE SplitWrite(book, ctx, content,
                    seg_resource_bps(res.referenced, content,
                                     ctx.nav_item_path, ctx.ncx_item_path))

\* one iteration, given the content documents of the segment; a segment
\* without content documents is skipped
SplitSegmentOf(book, ctx, content) ==
    IF content = <<>> THEN SplitAdvance /\ UNCHANGED <<assigned_docs, outputs>>
    ELSE /\ assigned_docs' = assigned_docs \cup Range(content)
         /\ SplitCollected(book, ctx, content,
                collect_referenced_resources(book, Range(content), ctx.manifest, ctx.opf_dir))

\* one iteration of "Generate each segment EPUB"; seg_num is idx
SplitSegment ==
    /\ op = "split" /\ pc = "segment"
    /\ SplitSegmentOf(input_paths[1], split_ctx,
           seg_content_bps(split_ctx.spine_bookpaths,
                           split_ctx.segment_ranges[idx][1],
                           split_ctx.segment_ranges[idx][2],
                           assigned_docs))
    /\ UNCHANGED <<op, logVars, helperVars, input_paths, mergeVars, split_points, split_ctx>>

\* the archive is closed and _do_split returns 0
SplitReturn ==
    /\ op = "split" /\ pc = "return"
    /\ opened' = {}
    /\ rc' = 0
    /\ pc' = "done"
    /\ UNCHANGED <<op, logVars, helperVars, input_paths, idx, outputs, err, mergeVars, splitVars>>

NextSplit ==
    \/ SplitValidate
    \/ SplitPrepare
    \/ SplitSegment
    \/ SplitReturn

SpecSplit == InitSplit /\ [][NextSplit]_vars

---------------------------------------------------------------------------
(* Properties of the split.                                                *)

\* every entry of a written archive
AllEntries(out) == Range(out.entries) \cup out.unordered

\* the targets and the spine documents of a package, as _do_split reads them
\* when it is given no split point
Plan(book) == split_prepare(book, <<>>)

\* the number of targets the split points index
TargetCount(book) ==
    IF Plan(book).status = "ok" THEN Len(Plan(book).toc_targets) ELSE 0

\* the targets follow the content documents of the spine one to one, in order
OneToOne(book) ==
    /\ Plan(book).status = "ok"
    /\ [k \in 1..Len(Plan(book).toc_targets) |-> Plan(book).toc_targets[k].href]
          = Plan(book).spine_bookpaths

ValidPoints(book, points) ==
    \A pt \in Range(points) : pt >= 0 /\ pt < TargetCount(book)

\* mimetype, the container descriptor, exactly one OPF, one generated TOC
CompleteArchive(out) ==
    /\ \E e \in AllEntries(out) : e.path = P_mimetype
    /\ \E e \in AllEntries(out) : e.path = P_container
    /\ Cardinality({e \in AllEntries(out) : endswith(lower(e.path), <<".", "o", "p", "f">>)}) = 1
    /\ Cardinality({e \in AllEntries(out) : e.role = "toc"}) = 1

\* C5: splitting a readable package whose targets map one to one, in order,
\* onto its spine content documents at k distinct valid split points returns
\* 0 and yields exactly k archives, each holding mimetype, the container
\* descriptor, exactly one OPF and one generated TOC document.
C5_SplitYieldsKArchives ==
    (/\ op = "split" /\ pc = "done"
     /\ ValidInput(input_paths[1])
     /\ input_paths[1].corrupt = {}
     /\ OneToOne(input_paths[1])
     /\ ValidPoints(input_paths[1], split_points)) =>
        /\ rc = 0
        /\ Len(outputs) = Cardinality(Range(split_points))
        /\ \A k \in 1..Len(outputs) : CompleteArchive(outputs[k])

\* four targets, four spine chapters, split points [0, 2]: two archives
C5_Witness ==
    /\ op = "split" /\ pc = "done" /\ rc = 0
    /\ input_paths[1] = SplitBook4(V30)
    /\ OneToOne(input_paths[1])
    /\ TargetCount(input_paths[1]) = 4
    /\ split_points = <<0, 2>>
    /\ Len(outputs) = 2

\* C6: the OPF of every archive a split writes has the version of the source
\* package, 2.0 or 3.0, whatever the split points.
C6_SplitKeepsVersion ==
    (op = "split" /\ input_paths[1].opf.version \in {V20, V30}) =>
        \A k \in 1..Len(outputs) :
            \A e \in AllEntries(outputs[k]) :
                e.role = "opf" => e.data.version = input_paths[1].opf.version

\* an EPUB2 source was split into two archives
C6_Witness ==
    /\ op = "split" /\ pc = "done" /\ rc = 0
    /\ input_paths[1].opf.version = V20
    /\ Len(outputs) = 2
    /\ \A k \in 1..2 : \E e \in AllEntries(outputs[k]) : e.role = "opf"

\* C7: a split run that has written n archives (n <= 99) has written exactly
\* the files {basename}_01.epub ... {basename}_n.epub, without a gap.
C7_SplitNamesContiguous ==
    (op = "split" /\ pc = "done" /\ Len(outputs) <= 99) =>
        {outputs[k].name : k \in 1..Len(outputs)}
            = {SegFileName(input_paths[1].stem, n) : n \in 1..Len(outputs)}

\* C8: whenever a merge or split run returns non-zero for a structural
\* failure, the run has created no output file.
C8_AllOrNothing ==
    (op \in {"merge", "split"} /\ pc = "done" /\ rc # 0) => outputs = <<>>

\* C9: when a requested split point is negative or not below the number of
\* targets, the split returns non-zero and writes no archive, even when the
\* other requested points are valid.
C9_SplitPointValidation ==
    (/\ op = "split"
     /\ \E pt \in Range(split_points) : pt < 0 \/ pt >= TargetCount(input_paths[1])) =>
        /\ outputs = <<>>
        /\ pc = "done" => rc # 0

\* a split of a four-target book at [0, 4] was refused for its second point
C9_Witness ==
    /\ op = "split" /\ pc = "done" /\ rc = 1 /\ err = "bad_point"
    /\ TargetCount(input_paths[1]) = 4
    /\ split_points = <<0, 4>>
    /\ outputs = <<>>


---------------------------------------------------------------------------
(* The command line of the plugin: EpubToolPlugin.run for the operations   *)
(* merge, split and list_split_targets.                                    *)

IsDigit(ch) == ch \in {"0", "1", "2", "3", "4", "5", "6", "7", "8", "9"}

\* the value of a run of decimal digits, underscores passed over
RECURSIVE DigitsToInt(_, _)
DigitsToInt(s, acc) ==
    IF s = <<>> THEN acc
    ELSE IF Head(s) = "_" THEN DigitsToInt(Tail(s), acc)
    ELSE DigitsToInt(Tail(s), 10 * acc + (ord(Head(s)) - ord("0")))

\* what int() takes after the sign: digits, single underscores between them
ValidDigits(t) ==
    /\ t # <<>>
    /\ \A i \in 1..Len(t) :
          \/ IsDigit(t[i])
          \/ /\ t[i] = "_" /\ 1 < i /\ i < Len(t)
             /\ IsDigit(t[i - 1]) /\ IsDigit(t[i + 1])

\* int(x) of a str: blanks around it are dropped, one sign is allowed;
\* ok = FALSE stands for ValueError
int(x) ==
    LET t    == strip(x)
        neg  == t # <<>> /\ t[1] = "-"
        body == IF t # <<>> /\ t[1] \in {"+", "-"} THEN Tail(t) ELSE t
    IN  IF ValidDigits(body)
        THEN [ok |-> TRUE, value |-> IF neg THEN 0 - DigitsToInt(body, 0)
                                            ELSE DigitsToInt(body, 0)]
        ELSE [ok |-> FALSE, value |-> 0]

\* a variant that reads the first character of each token only
parse_split_points_first_digit(text) ==
    LET toks == split(text, ",")
    IN  [ok     |-> \A k \in 1..Len(toks) : toks[k] # <<>> /\ IsDigit(toks[k][1]),
         points |-> [k \in 1..Len(toks) |->
                        IF toks[k] # <<>> /\ IsDigit(toks[k][1])
                        THEN ord(toks[k][1]) - ord("0") ELSE 0]]

\* [int(x) for x in args.split_points.split(",")]
parse_split_points(text) ==
    LET toks == split(text, ",")
    IN  [ok     |-> \A k \in 1..Len(toks) : int(toks[k]).ok,
         points |-> [k \in 1..Len(toks) |-> int(toks[k]).value]]

\* ",".join(str(p) for p in points), points not negative
join_split_points(points) ==
    joinwith([k \in 1..Len(points) |-> IntToStr(points[k])], ",")

\* what split_prepare found, read as the return value of list_split_targets:
\* [] without an OPF or without any target, the targets otherwise
list_split_targets_of(r) ==
    CASE r.status = "raise" -> [status |-> "raise", targets |-> <<>>]
      [] r.status = "ok"    -> [status |-> "ok", targets |-> r.toc_targets]
      [] OTHER              -> [status |-> "ok", targets |-> <<>>]

\* split_epub.list_split_targets: the nav, NCX and spine fallbacks are the
\* ones of _do_split, taken without any split point
list_split_targets(epub_path) ==
    IF ~epub_path.exists \/ ~epub_path.is_zip THEN [status |-> "ok", targets |-> <<>>]
    ELSE list_split_targets_of(split_prepare(epub_path, <<>>))

\* --split-points as given on the command line (given = FALSE: option absent)
NoPointsArg == [given |-> FALSE, text |-> <<>>]

PointsArg(text) == [given |-> TRUE, text |-> text]

PointsArgs ==
    {NoPointsArg, PointsArg(<<"0", ",", "2">>), PointsArg(<<"2", ",", "0", ",", "2">>), PointsArg(<<"0", ",", "1">>),
     PointsArg(<<"3">>), PointsArg(<<"-", "1">>), PointsArg(<<"4", ",", "0">>), PointsArg(<<"1", ",", ",", "2">>),
     PointsArg(<<" ", "1", ",", " ", "2">>)}

\* no nav document and no NCX; the spine names the chapters out of manifest
\* order, a stylesheet and an id the manifest does not have
SplitBookSpineMixed ==
    [BlankBook EXCEPT
        !.stem = <<"m", "i", "x", "e", "d">>,
        !.namelist = @ \o <<P_ch1, P_css, P_ch2, P_ch3>>,
        !.opf = [@ EXCEPT
            !.items = << Chapter("1"), Item(<<"c", "s", "s">>, <<"s", ".", "c", "s", "s">>, MT_CSS, <<>>),
                         Chapter("2"), Chapter("3") >>,
            !.itemrefs = << ItemRef(<<"c", "2">>), ItemRef(<<"c", "s", "s">>), ItemRef(<<"c", "1">>),
                            ItemRef(<<"z", "z">>) >>]]

CliListCatalogue == SplitCatalogue \cup {SplitBookSpineMixed}

CliMergeCatalogue == {BookA(V30), BookB(V20), BookNoOpf, BookBadOpf, BookNotZip, BookMissing}

MaxCliSources == 2

NotExited == [exit |-> -1, stdout |-> <<>>]

InitCli ==
    /\ pc = "args"
    /\ rc = -1
    /\ ret = NotExited
    /\ \/ /\ op = "merge"
          /\ input_paths \in UNION {[1..n -> CliMergeCatalogue] : n \in 0..MaxCliSources}
          /\ arg = [split_points |-> NoPointsArg]
       \/ /\ op = "split"
          /\ input_paths \in {<<>>} \cup {<<b>> : b \in SplitCatalogue}
          /\ arg \in {[split_points |-> p] : p \in PointsArgs}
       \/ /\ op = "list_split_targets"
          /\ input_paths \in {<<>>} \cup {<<b>> : b \in CliListCatalogue}
          /\ arg = [split_points |-> NoPointsArg]
    /\ idx = 0 /\ opened = {} /\ outputs = <<>> /\ err = ""
    /\ NoMergeYet /\ NoSplit /\ NoLog

\* sys.exit(code)
Exit(code, out) == ret' = [exit |-> code, stdout |-> out] /\ pc' = "exit"

\* the checks of the arguments: merge needs two --input-paths, every other
\* operation an --input-path that exists
CliCheckArgs ==
    /\ pc = "args"
    /\ IF op = "merge"
       THEN IF Len(input_paths) < 2 THEN Exit(1, <<>>)
            ELSE pc' = "dispatch" /\ ret' = ret
       ELSE IF input_paths = <<>> THEN Exit(1, <<>>)
            ELSE IF ~input_paths[1].exists THEN Exit(1, <<>>)
            ELSE pc' = "dispatch" /\ ret' = ret
    /\ UNCHANGED <<op, logVars, arg, rc, runVars, mergeVars, splitVars>>

\* the branch of the operation: merge_epub.run and split_epub.run are entered,
\* list_split_targets is called and its result printed; an exception raised
\* here is caught by run() of the plugin, which exits 1
CliDispatch ==
    /\ pc = "dispatch"
    /\ CASE op = "merge" ->
                pc' = "validate" /\ UNCHANGED <<ret, split_points>>
         [] op = "split" ->
                IF ~arg.split_points.given \/ ~parse_split_points(arg.split_points.text).ok
                THEN Exit(1, <<>>) /\ UNCHANGED split_points
                ELSE /\ split_points' = parse_split_points(arg.split_points.text).points
                     /\ pc' = "validate" /\ ret' = ret
         [] OTHER ->
                /\ IF list_split_targets(input_paths[1]).status = "raise"
                   THEN Exit(1, <<>>)
                   ELSE Exit(0, list_split_targets(input_paths[1]).targets)
                /\ UNCHANGED split_points
    /\ UNCHANGED <<op, logVars, arg, rc, runVars, mergeVars, split_ctx, assigned_docs>>

\* "if result == 0 ... else sys.exit(1)" after merge_epub.run or
\* split_epub.run has returned
CliResult ==
    /\ pc = "done"
    /\ IF rc = 0 THEN Exit(0, <<>>) ELSE Exit(1, <<>>)
    /\ UNCHANGED <<op, logVars, arg, rc, runVars, mergeVars, splitVars>>

NextCli ==
    \/ CliCheckArgs
    \/ CliDispatch
    \/ CliResult
    \/ NextMerge
    \/ NextSplit

SpecCli == InitCli /\ [][NextCli]_vars

\* the input has one of the structural defects: it is not a ZIP archive, its
\* OPF cannot be located, or its OPF is malformed
StructuralDefect(book) ==
    \/ ~book.is_zip
    \/ find_opf_path(book) = <<>>
    \/ ~parse_opf(book, find_opf_path(book)).ok

\* C11: the command line exits 0 when the operation succeeded and non-zero
\* when an input that exists has a structural defect (not a ZIP archive, no
\* OPF to be located, malformed OPF) or a split index is out of range.
C11_CliExitCodes ==
    (pc = "exit" /\ input_paths # <<>>
        /\ \A k \in 1..Len(input_paths) : input_paths[k].exists) =>
        /\ (\E k \in 1..Len(input_paths) : StructuralDefect(input_paths[k]))
              => ret.exit # 0
        /\ (op = "split" /\ rc = 1 /\ err = "bad_point") => ret.exit # 0
        /\ (op \in {"merge", "split"} /\ rc = 0) => ret.exit = 0

\* the package declares neither a nav document nor an NCX
NoTocDeclared(book) ==
    /\ \A k \in 1..Len(book.opf.items) : ~contains(book.opf.items[k].props, <<"n", "a", "v">>)
    /\ \A k \in 1..Len(book.opf.items) : book.opf.items[k].media_type # MT_NCX
    /\ book.opf.toc = <<>>

\* the spine itemrefs of the package that name an XHTML item of its manifest
SpineDocRefs(book) ==
    SelectSeq(book.opf.itemrefs, LAMBDA r :
        \E k \in 1..Len(book.opf.items) :
            book.opf.items[k].id = r.idref /\ book.opf.items[k].media_type = MT_XHTML)

\* the bookpath of the manifest item with the given id
ItemBookPath(book, id) ==
    LET it == CHOOSE it \in Range(book.opf.items) : it.id = id
    IN  normpath(join(dirname(book.container), it.href))

\* C12: for a readable package without nav document and without NCX,
\* list_split_targets returns exactly one entry per spine itemref that names an
\* XHTML item, in spine order, each at level 1 and with the non-empty bookpath
\* of that item as href.
C12_SpineFallbackTargets ==
    (/\ op = "list_split_targets" /\ pc = "exit" /\ input_paths # <<>>
     /\ ValidInput(input_paths[1]) /\ ~StructuralDefect(input_paths[1])
     /\ NoTocDeclared(input_paths[1])) =>
        /\ ret.exit = 0
        /\ Len(ret.stdout) = Len(SpineDocRefs(input_paths[1]))
        /\ \A k \in 1..Len(ret.stdout) :
              /\ ret.stdout[k].level = 1
              /\ ret.stdout[k].href # <<>>
              /\ ret.stdout[k].href =
                     ItemBookPath(input_paths[1], SpineDocRefs(input_paths[1])[k].idref)

\* the spine of the listed package differs from its manifest order and holds
\* an itemref that is no content document
C12_Witness ==
    /\ op = "list_split_targets" /\ pc = "exit"
    /\ input_paths = <<SplitBookSpineMixed>>
    /\ Len(ret.stdout) = 2
    /\ ret.stdout[1].href = P_ch2

---------------------------------------------------------------------------
(* split_epub: the walk over the lists of a toc nav and over the navPoints  *)
(* of an NCX, which gives every target its level.                          *)

\* the children of an li: a link, a span, a nested list
NavA(text, href) == [tag |-> "a", text |-> text, href |-> href, items |-> <<>>]

NavSpan(text) == [tag |-> "span", text |-> text, href |-> <<>>, items |-> <<>>]

NavOl(items) == [tag |-> "ol", text |-> <<>>, href |-> <<>>, items |-> items]

\* the href of a nav link: fragment dropped, percent-decoded, joined to nav_dir
nav_target_href(href_attr, nav_dir) ==
    IF split(href_attr, "#")[1] # <<>>
    THEN normpath(join(nav_dir, unquote(split(href_attr, "#")[1]))) ELSE <<>>

RECURSIVE walk_nav_list(_, _, _)
RECURSIVE walk_nav_child(_, _, _)

\* one child of an li inside _walk_nav_list
walk_nav_child(child, level, nav_dir) ==
    CASE child.tag = "a" ->
             << [title |-> strip(child.text), level |-> level,
                 href |-> nav_target_href(child.href, nav_dir)] >>
      [] child.tag = "span" ->
             << [title |-> strip(child.text), level |-> level, href |-> <<>>] >>
      [] child.tag = "ol" -> walk_nav_list(child.items, level + 1, nav_dir)
      [] OTHER -> <<>>

\* _walk_nav_list(ol_elem, level): ol_elem is the sequence of its li
\* elements, an li the sequence of its children
walk_nav_list(ol_elem, level, nav_dir) ==
    Flatten([i \in 1..Len(ol_elem) |->
        Flatten([j \in 1..Len(ol_elem[i]) |->
            walk_nav_child(ol_elem[i][j], level, nav_dir)])])

\* a navPoint: the text of its navLabel (empty when it has none), the src of
\* its content element, its nested navPoints
NavPoint(text, src, children) == [text |-> text, src |-> src, children |-> children]

\* the href of a navPoint: fragment dropped, joined to ncx_dir
ncx_target_href(src, ncx_dir) ==
    IF split(src, "#")[1] # <<>> THEN normpath(join(ncx_dir, split(src, "#")[1])) ELSE <<>>

\* _walk_navpoints(parent, level): parent is the sequence of its navPoints
RECURSIVE walk_navpoints(_, _, _)
walk_navpoints(parent, level, ncx_dir) ==
    Flatten([i \in 1..Len(parent) |->
        (IF strip(parent[i].text) # <<>> \/ ncx_target_href(parent[i].src, ncx_dir) # <<>>
         THEN << [title |-> strip(parent[i].text), level |-> level,
                  href |-> ncx_target_href(parent[i].src, ncx_dir)] >>
         ELSE <<>>)
        \o walk_navpoints(parent[i].children, level + 1, ncx_dir)])

MaxTocDepth == 2
MaxTocItems == 2

NavLeaves ==
    {NavA(<<"O", "n", "e">>, <<"c", "h", "1", ".", "x", "h", "t", "m", "l">>), NavA(<<" ">>, <<"c", "h", "1", ".", "x", "h", "t", "m", "l", "#", "b">>), NavSpan(<<" ", "P", "a", "r", "t", " ">>)}

\* the li elements that nest at most d lists, each nested list of one li
RECURSIVE NavItems(_)
NavItems(d) ==
    {<<l>> : l \in NavLeaves}
    \cup (IF d = 0 THEN {}
          ELSE {<<l, NavOl(<<i>>)>> : l \in NavLeaves, i \in NavItems(d - 1)})

\* a first li of any depth, followed by li elements without nested list
NavLists ==
    {<<i>> \o rest : i \in NavItems(MaxTocDepth),
                     rest \in UNION {[1..n -> NavItems(0)] : n \in 0..(MaxTocItems - 1)}}

RECURSIVE NavPoints(_)
NavPoints(d) ==
    {NavPoint(t, s, <<>>) : t \in {<<"O", "n", "e">>, <<>>}, s \in {<<"c", "h", "1", ".", "x", "h", "t", "m", "l", "#", "b">>, <<>>}}
    \cup (IF d = 0 THEN {}
          ELSE {NavPoint(t, s, <<c>>) : t \in {<<"O", "n", "e">>, <<>>}, s \in {<<"c", "h", "1", ".", "x", "h", "t", "m", "l", "#", "b">>, <<>>},
                                        c \in NavPoints(d - 1)})

\* a first navPoint of any depth, followed by navPoints without children
NavMaps ==
    {<<p>> \o rest : p \in NavPoints(MaxTocDepth),
                     rest \in UNION {[1..n -> NavPoints(0)] : n \in 0..(MaxTocItems - 1)}}

InitTargets ==
    /\ \/ op = "walk_nav_list" /\ arg \in NavLists
       \/ op = "walk_navpoints" /\ arg \in NavMaps
    /\ pc = "call"
    /\ ret = <<>>
    /\ rc = -1
    /\ NoRun

\* _parse_toc_nav_with_levels: _walk_nav_list(child, 1) on the ol of the toc nav
CallWalkNavList ==
    /\ op = "walk_nav_list" /\ pc = "call"
    /\ ret' = walk_nav_list(arg, 1, <<"O", "E", "B", "P", "S">>)
    /\ pc' = "done"
    /\ UNCHANGED <<op, logVars, arg, rc, runVars, mergeVars, splitVars>>

\* _parse_toc_ncx_with_levels: _walk_navpoints(child, 1) on the navMap
CallWalkNavPoints ==
    /\ op = "walk_navpoints" /\ pc = "call"
    /\ ret' = walk_navpoints(arg, 1, <<"O", "E", "B", "P", "S">>)
    /\ pc' = "done"
    /\ UNCHANGED <<op, logVars, arg, rc, runVars, mergeVars, splitVars>>

NextTargets == CallWalkNavList \/ CallWalkNavPoints

SpecTargets == InitTargets /\ [][NextTargets]_vars

\* C13: every target read from a toc nav or from an NCX has a title that is
\* not empty and a level of at least 1.
C13_TargetsWellFormed ==
    (op \in {"walk_nav_list", "walk_navpoints"} /\ pc = "done") =>
        \A k \in 1..Len(ret) : ret[k].title # <<>> /\ ret[k].level >= 1

---------------------------------------------------------------------------
(* Properties of the written archives, for runs started from the command   *)
(* line.                                                                   *)

\* the four leading entries of a written archive and what follows them
WriterOrder(out) ==
    /\ Len(out.entries) >= 4
    /\ out.entries[1].path = P_mimetype /\ out.entries[1].compress = "stored"
    /\ out.entries[2].path = P_container
    /\ out.entries[3].role = "opf" /\ out.entries[3].path = out.entries[2].data
    /\ out.entries[4].role = "toc"
    /\ \A k \in 5..Len(out.entries) : out.entries[k].role = "content"
    /\ \A e \in out.unordered : e.role = "content"
    /\ NoDuplicates(EntryPaths(out))
    /\ \A e \in out.unordered : e.path \notin Range(EntryPaths(out))
    /\ \A e1, e2 \in out.unordered : e1.path = e2.path => e1 = e2

\* C14: every archive written by merge or split starts with the mimetype
\* entry, stored uncompressed, then holds the container descriptor, the
\* generated OPF and the generated TOC document, and after them the content
\* entries, no bookpath twice.
C14_WriterOrdering ==
    \A k \in 1..Len(outputs) : WriterOrder(outputs[k])

\* a merged archive with content entries has been written
C14_Witness ==
    /\ op = "merge" /\ pc = "exit" /\ ret.exit = 0
    /\ Len(outputs) = 1 /\ Len(outputs[1].entries) > 5

\* a split has written two archives with content entries
C14_WitnessSplit ==
    /\ op = "split" /\ pc = "exit" /\ ret.exit = 0
    /\ Len(outputs) = 2
    /\ \A k \in 1..2 : Cardinality(outputs[k].unordered) >= 2

---------------------------------------------------------------------------
(* The --split-points option: joining a list of indices and parsing it.    *)

MaxParseLen   == 3
MaxParseValue == 12

InitPoints ==
    /\ op = "parse_split_points"
    /\ pc = "call"
    /\ arg \in UNION {[1..n -> 0..MaxParseValue] : n \in 1..MaxParseLen}
    /\ ret = [text |-> <<>>, ok |-> FALSE, points |-> <<>>]
    /\ rc = -1
    /\ NoRun

\* csv_str = ",".join(str(p) for p in points)
CallJoinPoints ==
    /\ op = "parse_split_points" /\ pc = "call"
    /\ ret' = [ret EXCEPT !.text = join_split_points(arg)]
    /\ pc' = "joined"
    /\ UNCHANGED <<op, logVars, arg, rc, runVars, mergeVars, splitVars>>

\* points = [int(x) for x in csv_str.split(",")]
CallParsePoints ==
    /\ op = "parse_split_points" /\ pc = "joined"
    /\ ret' = [text |-> ret.text] @@ parse_split_points(ret.text)
    /\ pc' = "done"
    /\ UNCHANGED <<op, logVars, arg, rc, runVars, mergeVars, splitVars>>

NextPoints == CallJoinPoints \/ CallParsePoints

SpecPoints == InitPoints /\ [][NextPoints]_vars

\* C15: a non-empty list of non-negative integers, joined by "," in decimal
\* form and parsed one integer per comma-separated token, comes back as the
\* same list, in the same order and with the same repetitions.
C15_SplitPointsRoundTrip ==
    (op = "parse_split_points" /\ pc = "done") => ret.ok /\ ret.points = arg

\* a list with a repeated number of two digits has been parsed
C15_Witness ==
    /\ op = "parse_split_points" /\ pc = "done"
    /\ arg = <<10, 0, 10>>
    /\ ret.text = <<"1", "0", ",", "0", ",", "1", "0">>
    /\ ret.points = <<10, 0, 10>>

---------------------------------------------------------------------------
(* utils/log.py: the logwriter instances of one process. merge_epub and    *)
(* split_epub each hold one, created when the module is imported; both     *)
(* open the same log.txt with mode "w" and keep their own file position.   *)

\* the byte a file shows where nothing was written (a hole past the end)
Nul == "NUL"

\* f.write(text) at position pos of a file opened with mode "w" (no append):
\* the characters replace what is there and extend the file when needed
WriteAt(content, pos, text) ==
    LET n == IF Len(content) > pos + Len(text) THEN Len(content) ELSE pos + Len(text)
    IN  [i \in 1..n |->
            IF i > pos /\ i <= pos + Len(text) THEN text[i - pos]
            ELSE IF i <= Len(content) THEN content[i]
            ELSE Nul]

\* time.strftime("%Y-%m-%d %H:%M:%S", t) for a year of four digits
strftime(t) ==
    IntToStr(t.year) \o <<"-">> \o Pad2(t.mon) \o <<"-">> \o Pad2(t.mday) \o <<" ">>
    \o Pad2(t.hour) \o <<":">> \o Pad2(t.min) \o <<":">> \o Pad2(t.sec)

\* f"time: {current_time}\n"
TimeLine(t) == <<"t", "i", "m", "e", ":", " ">> \o strftime(t) \o <<"\n">>

\* values of time.localtime() in the checks
LogClock ==
    {[year |-> 2024, mon |-> 1, mday |-> 5, hour |-> 9, min |-> 0, sec |-> 7],
     [year |-> 2025, mon |-> 12, mday |-> 31, hour |-> 23, min |-> 59, sec |-> 59]}

LogMessages == {<<"m", "e", "r", "g", "e", "d">>, <<"s", "p", "l", "i", "t">>, <<"o", "k">>}

MaxLogWrites == 3

InitLog ==
    /\ op = "log"
    /\ pc = "import"
    /\ rc = -1
    /\ NoHelper
    /\ NoRun

\* logwriter.__init__ of the next module in import order: open(path, "w")
\* truncates log.txt, the time line is written and flushed
LogInit ==
    /\ op = "log" /\ pc = "import"
    /\ \E k \in 1..Len(LogWriters), t \in LogClock :
          /\ loggers[LogWriters[k]].state = "none"
          /\ \A j \in 1..(k - 1) : loggers[LogWriters[j]].state # "none"
          /\ log_txt' = WriteAt(<<>>, 0, TimeLine(t))
          /\ loggers' = [loggers EXCEPT ![LogWriters[k]] =
                            [state |-> "open", pos |-> Len(TimeLine(t))]]
          /\ pc' = IF k = Len(LogWriters) THEN "run" ELSE "import"
    /\ UNCHANGED <<op, arg, ret, rc, runVars, mergeVars, splitVars, stderr>>

\* logwriter.write(text) on one instance: the line goes to the file at the
\* position of this instance, then to stderr
LogWrite ==
    /\ op = "log" /\ pc = "run"
    /\ Len(stderr) < MaxLogWrites
    /\ \E w \in Range(LogWriters), text \in LogMessages :
          /\ loggers[w].state = "open"
          /\ log_txt' = WriteAt(log_txt, loggers[w].pos, text \o <<"\n">>)
          /\ loggers' = [loggers EXCEPT ![w].pos = @ + Len(text) + 1]
          /\ stderr' = Append(stderr, text)
    /\ UNCHANGED <<op, pc, arg, ret, rc, runVars, mergeVars, splitVars>>

\* logwriter.close of every instance (registered with atexit)
LogClose ==
    /\ op = "log" /\ pc = "run"
    /\ loggers' = [w \in Range(LogWriters) |-> [loggers[w] EXCEPT !.state = "closed"]]
    /\ pc' = "closed"
    /\ UNCHANGED <<op, arg, ret, rc, runVars, mergeVars, splitVars, log_txt, stderr>>

NextLog == LogInit \/ LogWrite \/ LogClose

SpecLog == InitLog /\ [][NextLog]_vars

\* the lines of log.txt
LogLines == split(log_txt, "\n")

\* "time: YYYY-MM-DD HH:MM:SS"
IsTimeLine(line) ==
    /\ Len(line) = 25
    /\ SubSeq(line, 1, 6) = <<"t", "i", "m", "e", ":", " ">>
    /\ \A i \in {7, 8, 9, 10, 12, 13, 15, 16, 18, 19, 21, 22, 24, 25} : IsDigit(line[i])
    /\ line[11] = "-" /\ line[14] = "-" /\ line[17] = " "
    /\ line[20] = ":" /\ line[23] = ":"

\* C16: once the writers are closed, every message written through
\* logwriter.write() by the instances of the process is a line of stderr and
\* a line of log.txt, and the first line of log.txt is a time line.
C16_LogDualWrite ==
    (op = "log" /\ pc = "closed") =>
        /\ IsTimeLine(LogLines[1])
        /\ \A k \in 1..Len(stderr) :
              \E i \in 2..Len(LogLines) : LogLines[i] = stderr[k]

---------------------------------------------------------------------------
(* Properties of the merged package: ids and spine.                        *)

\* the manifest and the spine of the OPF written into an archive
WrittenManifest(out) == out.entries[3].data.manifest

WrittenSpine(out) == out.entries[3].data.spine

ManifestIds(manifest) == [k \in 1..Len(manifest) |-> manifest[k].id]

\* C17: the manifest item ids of every merged output package are pairwise
\* distinct, the ids carried over from the sources and the id of the
\* generated nav item included.
C17_UniqueManifestIds ==
    (op = "merge") =>
        \A k \in 1..Len(outputs) : NoDuplicates(ManifestIds(WrittenManifest(outputs[k])))

\* the positions of a merge run at which it has a next step; the remaining
\* ones are "done" (run() has returned) and "hang" (the while loop of the
\* unique-id assignment whose only candidate is taken: it never ends)
MergeCanStep == pc \in {"validate", "parse", "detect", "build", "write", "close"}

\* how far a merge run is from its return: every step lowers this number
MergeRank ==
    CASE pc = "validate" -> 3 * MaxSources + 6
      [] pc = "parse"    -> 3 * MaxSources + 6 - idx
      [] pc = "detect"   -> 2 * MaxSources + 4
      [] pc = "build"    -> 2 * MaxSources + 4 - idx
      [] pc = "write"    -> 2
      [] pc = "close"    -> 1
      [] pc = "done" /\ opened # {} -> 1
      [] OTHER           -> 0

MergeProgress == [][MergeRank' < MergeRank]_vars

\* C18: every merge run terminates: it never enters a loop it cannot leave,
\* whatever ids the earlier sources and earlier items have taken; it has
\* returned or has a next step, and every step brings the return nearer.
C18_MergeTerminates ==
    (op = "merge") => (pc = "done" \/ MergeCanStep)

\* C19: in every output package of merge and of split, the idref of every
\* spine itemref is the id of a manifest item of that package.
C19_SpineRefsResolve ==
    \A k \in 1..Len(outputs) :
        \A i \in 1..Len(WrittenSpine(outputs[k])) :
            \E j \in 1..Len(WrittenManifest(outputs[k])) :
                WrittenManifest(outputs[k])[j].id = WrittenSpine(outputs[k])[i].idref

\* the manifest items of a parsed source that the merge carries over (all but
\* the NCX and the nav document), in manifest order
CarriedItems(data) ==
    SelectSeq(data.manifest, LAMBDA it :
        it.media_type # MT_NCX /\ ~contains(it.props, <<"n", "a", "v">>))

\* the spine of a parsed source retargeted to the ids its carried items got:
\* given[j] is the item written for CarriedItems(data)[j]
RetargetedSpine(data, given) ==
    LET carried == CarriedItems(data)
        own     == SelectSeq(data.spine, LAMBDA r :
                       \E j \in 1..Len(carried) : carried[j].id = r.idref)
    IN  [k \in 1..Len(own) |->
            given[CHOOSE j \in 1..Len(carried) : carried[j].id = own[k].idref].id]

\* C20: the itemrefs appended to the merged spine while source N is processed
\* are the itemrefs of source N's own spine that name a carried item, in their
\* original order, each retargeted to the id that item got in the merged
\* manifest; no itemref names an item of another source.
C20_SpineConcatenation ==
    [][(op = "merge" /\ pc = "build" /\ pc' \in {"build", "write"}) =>
          LET given == SubSeq(all_manifest_items', Len(all_manifest_items) + 1,
                              Len(all_manifest_items'))
              added == SubSeq(all_spine_items', Len(all_spine_items) + 1,
                              Len(all_spine_items'))
          IN  /\ SubSeq(all_spine_items', 1, Len(all_spine_items)) = all_spine_items
              /\ [k \in 1..Len(added) |-> added[k].idref]
                    = RetargetedSpine(epub_data[idx], given)]_vars

---------------------------------------------------------------------------
(* The manifest of a written package against the entries of its archive.   *)

\* the bookpath a manifest item of a written package refers to
WrittenBookPath(out, item) ==
    normpath(join(dirname(out.entries[3].path), item.href))

\* merge: the source file (volume, bookpath) each carried manifest item was
\* built from, in the order of the merged manifest
ItemOrigins ==
    Flatten([k \in 1..Len(epub_data) |->
        [j \in 1..Len(CarriedItems(epub_data[k])) |->
            [vol  |-> k,
             path |-> BookPath(epub_data[k].opf_dir,
                               CarriedItems(epub_data[k])[j].href)]]])

\* the last manifest item is the generated TOC document of the archive
TocItemResolves(out) ==
    LET man == WrittenManifest(out)
    IN  \E t \in 1..Len(out.entries) :
            /\ out.entries[t].role = "toc"
            /\ out.entries[t].path = WrittenBookPath(out, man[Len(man)])

\* the archive holds a copied member at bp; for a merge its bytes are those of
\* the source file origin
CopiedFrom(out, bp, origin) ==
    \/ \E t \in 1..Len(out.entries) :
          /\ out.entries[t].role = "content"
          /\ out.entries[t].path = bp
          /\ op = "merge" =>
                /\ out.entries[t].data.vol = origin.vol
                /\ out.entries[t].data.path = origin.path
    \/ \E e \in out.unordered : e.path = bp

\* C21: in every archive written by merge or split, each manifest item other
\* than the generated TOC item resolves to a copied entry of the archive whose
\* bytes come from the source file the item was built from, the TOC item
\* resolves to the generated TOC entry, and two manifest items built from
\* different source files never resolve to the same bookpath.
C21_ManifestResolves ==
    \A k \in 1..Len(outputs) :
        LET out == outputs[k]
            man == WrittenManifest(out)
            n   == Len(man)
        IN  /\ TocItemResolves(out)
            /\ \A i \in 1..(n - 1) :
                  CopiedFrom(out, WrittenBookPath(out, man[i]),
                             IF op = "merge" THEN ItemOrigins[i] ELSE <<>>)
            /\ \A i, j \in 1..n :
                  (i < j /\ WrittenBookPath(out, man[i]) = WrittenBookPath(out, man[j])) =>
                      /\ j < n
                      /\ op = "merge" => ItemOrigins[i] = ItemOrigins[j]

---------------------------------------------------------------------------
(* The two reference rewriters side by side, on references that are        *)
(* relative and on references that begin with a scheme.                    *)

\* what url\((["']?)([^)]*?)\1\) reads back from a piece of text that starts
\* with url(: the text up to the first ")", without the quote that encloses it
ScanUrlValue(text) ==
    LET body == SubSeq(text, 5, find(text, ")") - 1)
    IN  IF Len(body) >= 2 /\ body[1] \in {"\"", "'"} /\ body[Len(body)] = body[1]
        THEN SubSeq(body, 2, Len(body) - 1)
        ELSE body

\* a value that begins with http://, https:// or data:
IsAbsoluteRef(value) ==
    \/ startswith(value, <<"h", "t", "t", "p", ":", "/", "/">>)
    \/ startswith(value, <<"h", "t", "t", "p", "s", ":", "/", "/">>)
    \/ startswith(value, <<"d", "a", "t", "a", ":">>)

P_http   == <<"h", "t", "t", "p", ":", "/", "a">>
P_data   == <<"d", "a", "t", "a", ":", "a">>
P_d_data == <<"d", "/", "d", "a", "t", "a", ":", "a">>

AbsRefValues ==
    { <<"h", "t", "t", "p", ":", "/", "/", "x", "/", ".", ".", "/", "a">>,
      <<"h", "t", "t", "p", ":", "/", "/", "x", "/", "y">>,
      <<"h", "t", "t", "p", "s", ":", "/", "/", "x", "/", ".", ".", "/", "a">>,
      <<"d", "a", "t", "a", ":", "a">>,
      <<"d", "a", "t", "a", ":", "a", "#", "f">> }

\* rename maps whose keys include members named like a scheme
RefsRenameMaps ==
    {[fp \in K |-> RenamedPath(vol, fp)] :
        K \in SUBSET {P_a, P_d_a, P_http, P_data, P_d_data}, vol \in 2..MaxSources}

RefsMatches ==
    {m \in [name : {A_href, A_src}, q : {"\"", "'"},
            value : AbsRefValues \cup { <<"a">>, <<"a", "#", "f">>, <<".", ".", "/", "a">>, <<"%", "6", "1">>, <<"b">> }] :
        m.q \notin Range(m.value)}

\* the matches of the url() pattern: q is the optional quote
CssMatches ==
    [q : {<<>>, <<"\"">>, <<"'">>},
     value : AbsRefValues \cup { <<>>, <<"a">>, <<"a", "#", "f">>, <<".", ".", "/", "a">>, <<".", ".", "/", "d", "/", "a", "#", "f">>, <<"%", "6", "1">>, <<"b">> }]

InitRefs ==
    /\ pc = "call"
    /\ \/ /\ op = "update_references_in_content"
          /\ arg \in [doc : {<<m>> : m \in RefsMatches},
                      rename_map : RefsRenameMaps,
                      content_bookpath : {P_c, P_d_c}]
       \/ /\ op = "update_references_in_css"
          /\ arg \in [css : {<<m>> : m \in CssMatches},
                      rename_map : RefsRenameMaps,
                      css_bookpath : {P_c, P_d_c}]
    /\ ret = <<>>
    /\ rc = -1
    /\ NoRun

CallUpdateCss ==
    /\ op = "update_references_in_css"
    /\ pc = "call"
    /\ ret' = update_references_in_css(arg.css, arg.rename_map, arg.css_bookpath)
    /\ pc' = "done"
    /\ UNCHANGED <<op, logVars, arg, rc, runVars, mergeVars, splitVars>>

NextRefs == CallUpdateContent \/ CallUpdateCss

SpecRefs == InitRefs /\ [][NextRefs]_vars

\* C22: every relative href or src of a content document, and every relative
\* url() of a stylesheet, that resolves (directory of the file, percent-decoded,
\* fragment stripped) to a key of the rename map is replaced by a reference
\* that resolves the same way to the renamed bookpath.
C22_RewriteComplete ==
    /\ (op = "update_references_in_content" /\ pc = "done") =>
          \A i \in 1..Len(arg.doc) :
              LET doc_dir  == dirname(arg.content_bookpath)
                  resolved == ResolveRef(arg.doc[i].value, doc_dir)
              IN  (~IsAbsoluteRef(arg.doc[i].value) /\ resolved \in DOMAIN arg.rename_map) =>
                      ResolveRef(ScanAttrValue(ret[i]), doc_dir) = arg.rename_map[resolved]
    /\ (op = "update_references_in_css" /\ pc = "done") =>
          \A i \in 1..Len(arg.css) :
              LET css_dir  == dirname(arg.css_bookpath)
                  resolved == ResolveRef(arg.css[i].value, css_dir)
              IN  (~IsAbsoluteRef(arg.css[i].value) /\ resolved \in DOMAIN arg.rename_map) =>
                      ResolveRef(ScanUrlValue(ret[i]), css_dir) = arg.rename_map[resolved]

\* C29: an href, src or url() value that begins with http://, https:// or
\* data: stands in the rewritten document exactly as it stood in the source,
\* whatever follows the scheme and whatever the rename map holds.
C29_AbsoluteUntouched ==
    /\ (op = "update_references_in_content" /\ pc = "done") =>
          \A i \in 1..Len(arg.doc) :
              IsAbsoluteRef(arg.doc[i].value) =>
                  ret[i] = AttrText(arg.doc[i].name, arg.doc[i].q, arg.doc[i].value)
    /\ (op = "update_references_in_css" /\ pc = "done") =>
          \A i \in 1..Len(arg.css) :
              IsAbsoluteRef(arg.css[i].value) =>
                  ret[i] = UrlText(arg.css[i].q, arg.css[i].value)

---------------------------------------------------------------------------
(* The merged navigation document against the rename maps.                 *)

\* the document a TOC href of a source points at: fragment stripped,
\* percent-decoded (the href is a bookpath already joined with the directory
\* of the TOC document)
TocTarget(href) == normpath(unquote(SplitFragment(href)[1]))

\* the generated nav document of a written merge
WrittenNav(out) == out.entries[4].data.toc

\* C23: in the nav document of a merged archive, the link written for a TOC
\* entry of source N whose target document is a key of source N's rename map
\* resolves (fragment stripped, percent-decoded) to the renamed bookpath,
\* whether or not the entry's href carried a fragment or percent-encoding.
C23_NavFollowsRenames ==
    op = "merge" =>
        \A o \in 1..Len(outputs) :
            \A k \in 1..Len(WrittenNav(outputs[o])) :
                \A j \in 1..Len(epub_data[k].toc_entries) :
                    (/\ epub_data[k].toc_entries[j].href # <<>>
                     /\ TocTarget(epub_data[k].toc_entries[j].href) \in DOMAIN rename_maps[k]) =>
                        ResolveRef(WrittenNav(outputs[o])[k].entries[j].href,
                                   dirname(merged_nav_bookpath))
                            = rename_maps[k][TocTarget(epub_data[k].toc_entries[j].href)]

---------------------------------------------------------------------------
(* The generated TOC document against the version of the written OPF.      *)

\* the positions of the generated TOC documents among the leading entries of
\* a written archive (the copied members all have the role "content")
TocEntries(out) == {i \in 1..Len(out.entries) : out.entries[i].role = "toc"}

\* C24: in every package written by merge or split the generated TOC document
\* is of the kind of the OPF version: a nav document when the version starts
\* with 3, otherwise an NCX that the toc attribute of the spine names.
C24_TocKindMatchesVersion ==
    \A k \in 1..Len(outputs) :
        LET out == outputs[k]
            opf == out.entries[3].data
        IN  /\ TocEntries(out) # {}
            /\ \A t \in TocEntries(out) :
                  IF is_epub3(opf.version) THEN out.entries[t].data.kind = "nav"
                  ELSE /\ out.entries[t].data.kind = "ncx"
                       /\ \E i \in 1..Len(opf.manifest) :
                             /\ opf.manifest[i].id = opf.toc
                             /\ opf.manifest[i].media_type = MT_NCX
                             /\ WrittenBookPath(out, opf.manifest[i]) = out.entries[t].path

---------------------------------------------------------------------------
(* The assignment of the spine documents to the segments of a split.       *)

\* the content documents of a written segment: the documents its spine names
SegmentDocs(out) ==
    {BookPath(split_ctx.opf_dir, ManifestGet(split_ctx.manifest, r.idref).href) :
        r \in Range(WrittenSpine(out))}

\* the written segments that hold the document bp in their spine
SegmentsOf(bp) == {k \in 1..Len(outputs) : bp \in SegmentDocs(outputs[k])}

\* the smallest start index of the segment ranges (0-based spine position)
MinStart ==
    CHOOSE s \in {split_ctx.segment_ranges[i][1] : i \in 1..Len(split_ctx.segment_ranges)} :
        \A i \in 1..Len(split_ctx.segment_ranges) : s <= split_ctx.segment_ranges[i][1]

\* C25: whatever the order and the targets of the TOC, no spine content
\* document is in the spine of two segments, and once the split has returned
\* 0 every spine content document at or after the smallest segment start is
\* in the spine of exactly one segment.
C25_SegmentsPartition ==
    (op = "split" /\ split_ctx # <<>>) =>
        /\ \A p \in 1..Len(split_ctx.spine_bookpaths) :
              Cardinality(SegmentsOf(split_ctx.spine_bookpaths[p])) <= 1
        /\ (pc = "done" /\ rc = 0 /\ split_ctx.segment_ranges # <<>>) =>
              \A p \in 1..Len(split_ctx.spine_bookpaths) :
                  (p - 1 >= MinStart) =>
                      Cardinality(SegmentsOf(split_ctx.spine_bookpaths[p])) = 1

\* a split of the reordered book whose two ranges overlap: the second segment
\* got only the document the first one had not claimed
C25_Witness ==
    /\ op = "split" /\ pc = "done" /\ rc = 0
    /\ input_paths[1] = SplitBookReordered
    /\ split_ctx.segment_ranges = << <<1, 3>>, <<0, 3>> >>
    /\ Len(outputs) = 2
    /\ SegmentDocs(outputs[2]) = {P_ch1}

\* the spine position (0-based) of the target of the lowest split point, -1
\* when that target is no spine document
FirstPointPosition ==
    target_spine_indices(split_ctx.toc_targets, split_ctx.spine_bookpaths)
        [sorted_points(split_points)[1] + 1]

\* C26: no spine content document that stands in the spine before the target
\* of the lowest split point is in the spine of a written segment.
C26_NothingBeforeFirstPoint ==
    (op = "split" /\ split_ctx # <<>> /\ split_points # <<>>) =>
        \A p \in 1..Len(split_ctx.spine_bookpaths) :
            (FirstPointPosition >= 0 /\ p - 1 < FirstPointPosition) =>
                SegmentsOf(split_ctx.spine_bookpaths[p]) = {}

---------------------------------------------------------------------------
(* The resources of a written segment.                                     *)

\* the bookpaths of the manifest of the package being split
KnownPaths == {BookPath(split_ctx.opf_dir, split_ctx.manifest[k].href) :
                  k \in 1..Len(split_ctx.manifest)}

IsDocPath(bp) == IsContentDoc(BpItem(split_ctx.manifest, split_ctx.opf_dir, bp).media_type, bp)

IsCssPath(bp) == IsStylesheet(BpItem(split_ctx.manifest, split_ctx.opf_dir, bp).media_type, bp)

\* the manifest files reached from the files in S through the url() references
\* of stylesheets, over chains of any length
RECURSIVE CssClosure(_, _)
CssClosure(book, S) ==
    LET more == UNION {CssRefs(MatchesOf(book.css, c), dirname(c), KnownPaths) :
                          c \in {s \in S : IsCssPath(s)}}
    IN  IF more \subseteq S THEN S ELSE CssClosure(book, S \cup more)

\* the resources other than content documents and the source's own nav and
\* NCX that the content documents of a segment reach
ReachableResources(book, out) ==
    {bp \in CssClosure(book,
                UNION {DocRefs(MatchesOf(book.docs, d), dirname(d), KnownPaths) :
                          d \in SegmentDocs(out)}) :
        /\ ~IsDocPath(bp)
        /\ bp \notin {split_ctx.nav_item_path, split_ctx.ncx_item_path}}

\* the bookpaths of the manifest of a written package
WrittenPaths(out) ==
    {WrittenBookPath(out, WrittenManifest(out)[i]) : i \in 1..Len(WrittenManifest(out))}

\* the bookpaths of the copied members of a written segment
CopiedPaths(out) == {e.path : e \in out.unordered}

\* C27: every manifest resource that the content documents of a written
\* segment reach through href/src references followed by stylesheet url()
\* references, over chains of any length, is in the manifest of the segment
\* and, when the source archive holds it, in the segment's archive.
C27_ResourcesTransitive ==
    (op = "split" /\ split_ctx # <<>>) =>
        \A k \in 1..Len(outputs) :
            \A bp \in ReachableResources(input_paths[1], outputs[k]) :
                /\ bp \in WrittenPaths(outputs[k])
                /\ bp \in Members(input_paths[1]) => bp \in CopiedPaths(outputs[k])

\* C28: the files a written segment holds besides its generated documents
\* are its own content documents and resources that are no content documents:
\* a content document of the source is in the manifest or in the archive of
\* a segment only when the spine of that segment names it, so its bytes are
\* in one archive at most.
C28_ResourcesNonContent ==
    (op = "split" /\ split_ctx # <<>>) =>
        \A k \in 1..Len(outputs) :
            \A bp \in KnownPaths :
                (/\ IsDocPath(bp)
                 /\ \/ bp \in CopiedPaths(outputs[k])
                    \/ \E i \in 1..(Len(WrittenManifest(outputs[k])) - 1) :
                          WrittenBookPath(outputs[k], WrittenManifest(outputs[k])[i]) = bp)
                    => bp \in SegmentDocs(outputs[k])

---------------------------------------------------------------------------
(* The source archives of a merge.                                         *)

=============================================================================
